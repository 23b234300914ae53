------------------------- MODULE ProficienciesProofs -------------------------
(***************************************************************************)
(* The rows of a character's class, race and background follow its build,  *)
(* as lists of skills its race and background granted since they were read *)
(* (what a deleted background gave stays with the character until a        *)
(* rebuild), and the GM's layer over them is decided on what it is and     *)
(* decides what the character has, for any number of requests and any      *)
(* reference data. The strengthening is LockOwner: a request past the      *)
(* character's lock owns it, so what it read of the row and of the GM's    *)
(* layer is current; and PlansWereRead: what a request has read without    *)
(* that lock, and is going to write, was granted since.                    *)
(***************************************************************************)
EXTENDS Proficiencies, TLAPS

\* Past the row's lock a request owns it.
LockOwner == \A r \in Requests : req[r].step \notin {"idle", "prepared"} => lock = r

\* The instance of an owner's request is the row.
BackgroundCurrent ==
    \A r \in Requests : /\ req[r].step \in {"locked", "loaded"} => req[r].background = build.background
                        /\ req[r].step = "loaded" => req[r].background = Null

\* Each of these sources by a list it has had.
Listed(skills, sources, history) ==
    /\ skills \in [sources -> SUBSET Skills]
    /\ \A x \in sources : skills[x] \in history[x]

\* The rows a request is going to write are of lists granted since it read them.
WasRead(q) ==
    /\ q.step \in {"prepared", "rebuilding"} =>
           /\ q.target \in Build
           /\ \E skills : Listed(skills, SourcesOf(q.target), q.since) /\ q.new = SkillRows(q.target, skills)
    /\ q.step = "loaded" =>
           /\ q.target \in Build /\ q.target.background \in Backgrounds
           /\ \E S \in q.since[q.target.background] : q.new = Sourced("BACKGROUND", S)

PlansWereRead == \A r \in Requests : WasRead(req[r])

\* A request of the GM panel is about a proficiency, and expertise is asked of
\* one that is to be kept.
WellAsked ==
    \A r \in Requests : /\ req[r].step \in {"held", "read"} => req[r].key \in Keys
                        /\ req[r].expertise # "unset" => req[r].want

Locked == TypeOK /\ LockOwner /\ WellAsked /\ DecidedOnCurrent

Histories == [Granting -> SUBSET SUBSET Skills]
Steps == {"idle", "prepared", "locked", "loaded", "rebuilding", "held", "read"}

\* RowsFollowBuild of any build, rows, backgrounds and history.
LeftOf(deleted, skills) == Sourced("BACKGROUND", UNION {skills[b] : b \in deleted})
Follow(b, rs, there, history) ==
    \E deleted \in SUBSET (Backgrounds \ there) :
        \E skills \in [SourcesOf(b) \cup deleted -> SUBSET Skills] :
            /\ \A x \in SourcesOf(b) \cup deleted : skills[x] \in history[x]
            /\ {row \in rs : row[1] # "CLASS"} = SkillRows(b, skills) \cup LeftOf(deleted, skills)

-----------------------------------------------------------------------------
(* The operators.                                                          *)

LEMMA RequestFields ==
  ASSUME NEW q \in Request
  PROVE  /\ q.step \in Steps /\ q.key \in Keys \cup {Null} /\ q.want \in BOOLEAN
         /\ q.expertise \in {"unset", "yes", "no"} /\ q.row \in Rows /\ q.others \in SUBSET BOOLEAN
         /\ q.background \in Backgrounds \cup {Null} /\ q.target \in Build \cup {Null}
         /\ q.new \in SUBSET SourceRows /\ q.since \in Histories
  BY DEF Request, Steps, Histories

LEMMA IdleType ==
  Idle \in Request /\ Idle.step = "idle" /\ Idle.expertise = "unset" /\ Idle.want = FALSE
  BY DEF Idle, Request, Rows, NoRow

LEMMA RowCases ==
  ASSUME NEW row \in Rows
  PROVE  \/ row = NoRow
         \/ row.action = "GRANT" /\ row.expertise \in {"unset", "yes", "no"}
         \/ row.action = "REVOKE" /\ row.expertise \in {"unset", "yes", "no"}
  BY DEF Rows

\* What resolve_group makes of each kind of row.
LEMMA HoldsCases ==
  ASSUME NEW row \in Rows, NEW others
  PROVE  /\ row = NoRow => Holds(row, others) = (others # {})
         /\ row.action = "GRANT" => Holds(row, others) = TRUE
         /\ row.action = "REVOKE" => Holds(row, others) = FALSE
  BY DEF Holds, NoRow

LEMMA OthersType ==
  ASSUME NEW k \in Keys
  PROVE  Others(k) \in SUBSET BOOLEAN
  BY DEF Others

\* apply: the layer it leaves produces the outcome that was wanted.
LEMMA GmRowDecides ==
  ASSUME NEW row \in Rows, NEW others \in SUBSET BOOLEAN, NEW want \in BOOLEAN,
         NEW expertise \in {"unset", "yes", "no"}, expertise # "unset" => want
  PROVE  /\ GmRow(row, others, want, expertise) \in Rows
         /\ Holds(GmRow(row, others, want, expertise), others) = want
         /\ expertise # "unset" =>
                (Expert(GmRow(row, others, want, expertise), others) <=> expertise = "yes")
  <1> DEFINE new == GmRow(row, others, want, expertise)
  <1>1. CASE want = (others # {}) /\ expertise = "unset"
    <2>1. new = NoRow
      BY <1>1 DEF GmRow
    <2> QED
      BY <1>1, <2>1 DEF Rows, Holds, NoRow
  <1>2. CASE ~(want = (others # {}) /\ expertise = "unset") /\ want
    <2> DEFINE grant == [action |-> "GRANT", expertise |-> expertise]
    <2>1. new = grant
      BY <1>2 DEF GmRow
    <2>2. grant \in Rows
      BY DEF Rows
    <2>3. grant.action = "GRANT" /\ grant.expertise = expertise
      OBVIOUS
    <2> HIDE DEF grant
    <2>4. Holds(grant, others)
      BY <2>3 DEF Holds
    <2>5. CASE expertise = "yes"
      <3>1. Expert(grant, others)
        BY <2>3, <2>4, <2>5 DEF Expert
      <3> QED
        BY <1>2, <2>1, <2>2, <2>4, <2>5, <3>1
    <2>6. CASE expertise = "no"
      <3>1. ~Expert(grant, others)
        BY <2>3, <2>6 DEF Expert
      <3>2. expertise # "yes"
        BY <2>6
      <3> QED
        BY <1>2, <2>1, <2>2, <2>4, <3>1, <3>2, Zenon
    <2>7. CASE expertise = "unset"
      BY <1>2, <2>1, <2>2, <2>4, <2>7, Zenon
    <2> QED
      BY <2>5, <2>6, <2>7
  <1>3. CASE ~(want = (others # {}) /\ expertise = "unset") /\ ~want
    <2>1. new = [action |-> "REVOKE", expertise |-> "unset"]
      BY <1>3 DEF GmRow
    <2> QED
      BY <1>3, <2>1 DEF Rows, Holds
  <1> QED
    BY <1>1, <1>2, <1>3

\* The skills a build gives are skills.
LEMMA SkillRowsType ==
  ASSUME NEW b \in Build, NEW skills, \A x \in SourcesOf(b) : skills[x] \in SUBSET Skills
  PROVE  /\ SkillRows(b, skills) \subseteq SourceRows
         /\ \A row \in SkillRows(b, skills) : row[1] # "CLASS"
  <1>1. /\ b.chosen \in SUBSET Skills /\ SkillsOf(b.race, skills) \in SUBSET Skills
        /\ SkillsOf(b.background, skills) \in SUBSET Skills
    BY DEF Build, SkillsOf, SourcesOf
  <1> QED
    BY <1>1 DEF SkillRows, Sourced, Keys, SourceRows

\* They depend on what its race and background grant, and on nothing else.
LEMMA SkillRowsLocal ==
  ASSUME NEW b \in Build, NEW one, NEW two, \A x \in SourcesOf(b) : one[x] = two[x]
  PROVE  SkillRows(b, one) = SkillRows(b, two)
  <1>1. SkillsOf(b.race, one) = SkillsOf(b.race, two) /\ SkillsOf(b.background, one) = SkillsOf(b.background, two)
    BY DEF SkillsOf, SourcesOf
  <1> QED
    BY <1>1 DEF SkillRows

LEMMA SourcesType ==
  ASSUME NEW b \in Build
  PROVE  SourcesOf(b) \subseteq Granting
  BY DEF Build, SourcesOf, Granting

LEMMA ReadType ==
  ASSUME TypeOK, NEW sources \in SUBSET Granting
  PROVE  Read(sources) \in Histories /\ \A x \in sources : offered[x] \in Read(sources)[x]
  BY DEF TypeOK, Read, Histories, Sources

\* The history only grows while a source is given another list.
LEMMA NotedGrows ==
  ASSUME NEW history \in Histories, NEW x, NEW S \in SUBSET Skills
  PROVE  Noted(history, x, S) \in Histories /\ \A y \in Granting : history[y] \subseteq Noted(history, x, S)[y]
  BY DEF Noted, Histories

\* What build and backgrounds offer now, as a list each.
LEMMA OfferedListed ==
  ASSUME TypeOK, NEW b \in Build
  PROVE  LET skills == [x \in SourcesOf(b) |-> offered[x]]
         IN  /\ Listed(skills, SourcesOf(b), Read(SourcesOf(b)))
             /\ SkillRows(b, offered) = SkillRows(b, skills)
  <1> DEFINE skills == [x \in SourcesOf(b) |-> offered[x]]
  <1>1. SourcesOf(b) \in SUBSET Granting
    BY SourcesType
  <1>2. \A x \in SourcesOf(b) : offered[x] \in SUBSET Skills /\ offered[x] \in Read(SourcesOf(b))[x]
    BY <1>1, ReadType DEF TypeOK, Sources
  <1>3. \A x \in SourcesOf(b) : skills[x] = offered[x]
    OBVIOUS
  <1>4. SkillRows(b, skills) = SkillRows(b, offered)
    <2> HIDE DEF skills
    <2> QED
      BY <1>3, SkillRowsLocal
  <1>5. Listed(skills, SourcesOf(b), Read(SourcesOf(b)))
    BY <1>2 DEF Listed
  <1> QED
    BY <1>4, <1>5

LEMMA FollowNow ==
  /\ RowsFollowBuild <=> Follow(build, rows, backgrounds, given)
  /\ RowsFollowBuild' <=> Follow(build', rows', backgrounds', given')
  BY DEF RowsFollowBuild, Follow, LeftOf, SourcesOf, SkillRows, SkillsOf, Sourced

LEMMA PlansLater == PlansWereRead' <=> \A r \in Requests : WasRead(req'[r])
  BY DEF PlansWereRead, WasRead, Listed, SourcesOf, SkillRows, SkillsOf, Sourced

LEMMA FollowIs ==
  ASSUME NEW b, NEW rs, NEW there, NEW history,
         NEW deleted \in SUBSET (Backgrounds \ there), NEW skills,
         Listed(skills, SourcesOf(b) \cup deleted, history),
         {row \in rs : row[1] # "CLASS"} = SkillRows(b, skills) \cup LeftOf(deleted, skills)
  PROVE  Follow(b, rs, there, history)
  BY DEF Follow, Listed

\* A longer history covers the same rows.
LEMMA FollowGrows ==
  ASSUME NEW b \in Build, NEW rs, NEW there, NEW one, NEW two, Follow(b, rs, there, one),
         \A x \in Granting : one[x] \subseteq two[x]
  PROVE  Follow(b, rs, there, two)
  BY SourcesType DEF Follow, Granting

\* A request's lists may have grown, and nothing else of it.
LEMMA WasReadGrows ==
  ASSUME NEW q \in Request, NEW p \in Request, WasRead(q),
         p.step = q.step, p.target = q.target, p.new = q.new,
         \A x \in Granting : q.since[x] \subseteq p.since[x]
  PROVE  WasRead(p)
  BY SourcesType DEF WasRead, Listed, Granting

LEMMA IdleWasRead == WasRead(Idle)
  BY IdleType DEF WasRead

LEMMA ClassRowsType ==
  ASSUME NEW class \in Classes
  PROVE  /\ Sourced("CLASS", Grants[class]) \subseteq SourceRows
         /\ \A row \in Sourced("CLASS", Grants[class]) : row[1] = "CLASS"
  BY SourceAssumption DEF Sourced, Keys, SourceRows

-----------------------------------------------------------------------------
(* Types.                                                                  *)

LEMMA TypeReq == TypeOK => req \in [Requests -> Request]
  BY DEF TypeOK

LEMMA InitTypeOK == Init => TypeOK /\ RowsFollowBuild
  <1> SUFFICES ASSUME Init PROVE TypeOK /\ RowsFollowBuild
    OBVIOUS
  <1>1. build \in Build /\ build.class \in Classes
    BY BuildAssumption DEF Init, Build
  <1>2. offered \in [Sources -> SUBSET Skills]
    BY DEF Init
  <1>3. SourcesOf(build) \in SUBSET Granting
    BY <1>1, SourcesType
  <1>4. /\ given \in [Granting -> SUBSET SUBSET Skills]
        /\ \A x \in SourcesOf(build) : offered[x] \in given[x] /\ offered[x] \in SUBSET Skills
    BY <1>2, <1>3 DEF Init, Read, Sources
  <1>5. rows = SkillRows(build, offered) \cup Sourced("CLASS", Grants[build.class])
    BY DEF Init
  <1>6. /\ SkillRows(build, offered) \subseteq SourceRows
        /\ \A row \in SkillRows(build, offered) : row[1] # "CLASS"
    BY <1>1, <1>4, SkillRowsType
  <1>7. /\ Sourced("CLASS", Grants[build.class]) \subseteq SourceRows
        /\ \A row \in Sourced("CLASS", Grants[build.class]) : row[1] = "CLASS"
    BY <1>1, ClassRowsType
  <1>8. gm \in [Keys -> Rows]
    BY DEF Init, Rows
  <1>9. req \in [Requests -> Request]
    BY IdleType DEF Init
  <1>10. TypeOK
    BY <1>1, <1>2, <1>4, <1>5, <1>6, <1>7, <1>8, <1>9 DEF Init, TypeOK
  <1>11. RowsFollowBuild
    <2> DEFINE skills == [x \in SourcesOf(build) \cup {} |-> offered[x]]
    <2>1. Listed(skills, SourcesOf(build) \cup {}, given)
      BY <1>4 DEF Listed
    <2>2. \A x \in SourcesOf(build) : skills[x] = offered[x]
      OBVIOUS
    <2> HIDE DEF skills
    <2>3. SkillRows(build, skills) = SkillRows(build, offered)
      BY <1>1, <2>2, SkillRowsLocal
    <2>4. LeftOf({}, skills) = {}
      BY DEF LeftOf, Sourced
    <2>5. {row \in rows : row[1] # "CLASS"} = SkillRows(build, skills) \cup LeftOf({}, skills)
      BY <1>5, <1>6, <1>7, <2>3, <2>4
    <2> QED
      BY <2>1, <2>5, FollowIs, FollowNow
  <1> QED
    BY <1>10, <1>11

\* What ends a request.
LEMMA DoneType ==
  ASSUME TypeOK, NEW r \in Requests, Done(r)
  PROVE  /\ lock' \in Requests \cup {NoRequest} /\ req' \in [Requests -> Request]
         /\ req'[r] = Idle /\ \A o \in Requests : o # r => req'[o] = req[o]
         /\ lock = r => lock' = NoRequest
  BY TypeReq, IdleType DEF TypeOK, Done
-----------------------------------------------------------------------------
(* Who holds the lock, and what was read under it.  Every action is proved to
   keep Locked and the rows of the build in one lemma each. *)

IInv == Locked /\ BackgroundCurrent /\ PlansWereRead /\ RowsFollowBuild

\* A step that leaves the build, the rows, the GM's layer and the skills alone.
Apart ==
    /\ build' = build /\ rows' = rows /\ gm' = gm /\ backgrounds' = backgrounds
    /\ offered' = offered /\ given' = given

LEMMA KeepsRows ==
  ASSUME RowsFollowBuild, build' = build, rows' = rows, backgrounds' = backgrounds, given' = given
  PROVE  RowsFollowBuild'
  BY FollowNow

LEMMA InitIInv == Init => IInv
  <1> SUFFICES ASSUME Init PROVE IInv
    OBVIOUS
  <1>1. TypeOK /\ RowsFollowBuild
    BY InitTypeOK
  <1>2. \A r \in Requests : req[r] = Idle
    BY DEF Init
  <1>3. LockOwner /\ WellAsked /\ DecidedOnCurrent /\ BackgroundCurrent
    BY <1>2, IdleType DEF LockOwner, WellAsked, DecidedOnCurrent, BackgroundCurrent
  <1>4. PlansWereRead
    BY <1>2, IdleWasRead DEF PlansWereRead
  <1> QED
    BY <1>1, <1>3, <1>4 DEF IInv, Locked

\* A request that owns the lock is the only one past it.
LEMMA Alone ==
  ASSUME IInv, NEW r \in Requests, lock = r \/ lock = NoRequest, NEW o \in Requests, o # r
  PROVE  req[o].step \in {"idle", "prepared"}
  BY NullAssumption DEF IInv, Locked, LockOwner

\* The end of a transaction that owned the lock: nobody else is past it.
LEMMA DoneKeeps ==
  ASSUME IInv, NEW r \in Requests, Done(r), lock = r
  PROVE  /\ LockOwner' /\ WellAsked' /\ DecidedOnCurrent' /\ BackgroundCurrent' /\ PlansWereRead'
         /\ lock' \in Requests \cup {NoRequest} /\ req' \in [Requests -> Request]
  <1>1. /\ lock' \in Requests \cup {NoRequest} /\ req' \in [Requests -> Request]
        /\ req'[r] = Idle /\ \A o \in Requests : o # r => req'[o] = req[o]
    BY DoneType DEF IInv, Locked
  <1>2. ASSUME NEW o \in Requests
        PROVE  /\ req'[o].step \in {"idle", "prepared"} /\ (req'[o].expertise # "unset" => req'[o].want)
               /\ WasRead(req'[o])
    <2>1. CASE o = r
      BY <2>1, <1>1, IdleType, IdleWasRead
    <2>2. CASE o # r
      BY <2>2, <1>1, Alone DEF IInv, Locked, WellAsked, PlansWereRead
    <2> QED
      BY <2>1, <2>2
  <1>3. LockOwner' /\ WellAsked' /\ DecidedOnCurrent' /\ BackgroundCurrent'
    BY <1>2 DEF LockOwner, WellAsked, DecidedOnCurrent, BackgroundCurrent
  <1> QED
    BY <1>1, <1>2, <1>3, PlansLater

\* The actions that only move a request to another step: the others stay where
\* they are, and it owns the lock if it is past it.
LEMMA MoveKeeps ==
  ASSUME IInv, Apart, UNCHANGED <<granted, picked, effects>>,
         NEW r \in Requests, NEW now \in Request, req' = [req EXCEPT ![r] = now],
         lock' \in Requests \cup {NoRequest}, WasRead(now), now.expertise # "unset" => now.want,
         now.step \in {"held", "read"} => now.key \in Keys,
         now.step = "read" => now.row = gm[now.key],
         now.step \in {"locked", "loaded"} => now.background = build.background,
         now.step = "loaded" => now.background = Null,
         now.step \notin {"idle", "prepared"} => lock' = r,
         lock' = lock \/ lock = NoRequest
  PROVE  IInv'
  <1>1. /\ req' \in [Requests -> Request] /\ req'[r] = now
        /\ \A o \in Requests : o # r => req'[o] = req[o]
    BY TypeReq DEF IInv, Locked
  <1>2. TypeOK'
    BY <1>1 DEF IInv, Locked, TypeOK, Apart
  <1>3. ASSUME NEW o \in Requests
        PROVE  /\ req'[o].step \notin {"idle", "prepared"} => lock' = o
               /\ req'[o].step \in {"held", "read"} => req'[o].key \in Keys
               /\ req'[o].expertise # "unset" => req'[o].want
               /\ req'[o].step = "read" => req'[o].row = gm[req'[o].key]
               /\ req'[o].step \in {"locked", "loaded"} => req'[o].background = build.background
               /\ req'[o].step = "loaded" => req'[o].background = Null
               /\ WasRead(req'[o])
    <2>1. CASE o = r
      BY <2>1, <1>1
    <2>2. CASE o # r
      <3>1. req'[o] = req[o]
        BY <2>2, <1>1
      <3>2. req[o].step \notin {"idle", "prepared"} => lock' = o
        BY NullAssumption DEF IInv, Locked, LockOwner
      <3> QED
        BY <3>1, <3>2 DEF IInv, Locked, WellAsked, DecidedOnCurrent, BackgroundCurrent, PlansWereRead
    <2> QED
      BY <2>1, <2>2
  <1>4. LockOwner' /\ WellAsked' /\ BackgroundCurrent'
    BY <1>3 DEF LockOwner, WellAsked, BackgroundCurrent, Apart
  <1>5. DecidedOnCurrent'
    BY <1>3 DEF DecidedOnCurrent, Apart
  <1>6. PlansWereRead'
    BY <1>3, PlansLater
  <1>7. RowsFollowBuild'
    BY KeepsRows DEF IInv, Apart
  <1> QED
    BY <1>2, <1>4, <1>5, <1>6, <1>7 DEF IInv, Locked

LEMMA PrepareKeeps ==
  ASSUME IInv, NEW r \in Requests, NEW b \in Builds, Prepare(r, b)
  PROVE  IInv'
  <1> DEFINE rs == SkillRows(b, offered)
             lists == Read(SourcesOf(b))
             now == [Idle EXCEPT !.step = "prepared", !.target = b, !.new = rs, !.since = lists]
  <1>1. b \in Build /\ TypeOK
    BY BuildAssumption DEF IInv, Locked
  <1>2. PICK skills : Listed(skills, SourcesOf(b), lists) /\ rs = SkillRows(b, skills)
    BY <1>1, OfferedListed
  <1>3. rs \in SUBSET SourceRows
    BY <1>1, <1>2, SkillRowsType DEF Listed
  <1>4. lists \in Histories
    BY <1>1, SourcesType, ReadType
  <1>5. req' = [req EXCEPT ![r] = now]
    BY DEF Prepare
  <1> HIDE DEF rs, lists
  <1>6. /\ now \in Request /\ now.step = "prepared" /\ now.target = b /\ now.new = rs /\ now.since = lists
        /\ now.expertise = "unset"
    BY <1>1, <1>3, <1>4, IdleType DEF Idle, Request, Histories
  <1> HIDE DEF now
  <1>7. WasRead(now)
    BY <1>1, <1>2, <1>6 DEF WasRead
  <1>8. lock' = lock /\ Apart /\ UNCHANGED <<granted, picked, effects>>
    BY DEF Prepare, Apart
  <1> QED
    BY <1>5, <1>6, <1>7, <1>8, MoveKeeps DEF IInv, Locked, TypeOK

LEMMA LockCharacterKeeps ==
  ASSUME IInv, NEW r \in Requests, LockCharacter(r)
  PROVE  IInv'
  <1> DEFINE now == Locking(r)
  <1>1. /\ req[r] \in Request /\ req[r].step \in {"idle", "prepared"}
        /\ build.background \in Backgrounds \cup {Null}
        /\ WasRead(req[r]) /\ (req[r].expertise # "unset" => req[r].want)
    BY TypeReq DEF IInv, Locked, TypeOK, Build, LockCharacter, PlansWereRead, WellAsked
  <1>2. /\ now \in Request /\ now.step = (IF req[r].step = "idle" THEN "locked" ELSE "rebuilding")
        /\ now.background = build.background /\ now.target = req[r].target /\ now.new = req[r].new
        /\ now.since = req[r].since /\ now.expertise = req[r].expertise /\ now.want = req[r].want
    BY <1>1 DEF Locking, Request
  <1>3. req' = [req EXCEPT ![r] = now] /\ lock = NoRequest /\ lock' = r
    BY DEF LockCharacter
  <1> HIDE DEF now
  <1>4. WasRead(now)
    BY <1>1, <1>2 DEF WasRead
  <1>5. Apart /\ UNCHANGED <<granted, picked, effects>>
    BY DEF LockCharacter, Apart
  <1> QED
    BY <1>1, <1>2, <1>3, <1>4, <1>5, MoveKeeps

LEMMA LoadBackgroundKeeps ==
  ASSUME IInv, NEW r \in Requests, NEW b \in Backgrounds, LoadBackground(r, b)
  PROVE  IInv'
  <1> DEFINE aim == [build EXCEPT !.background = b]
             rs == Sourced("BACKGROUND", offered[b])
             lists == Read({b})
             now == [req[r] EXCEPT !.step = "loaded", !.target = aim, !.new = rs, !.since = lists]
  <1>1. TypeOK /\ req[r] \in Request /\ build \in Build /\ {b} \in SUBSET Granting /\ b \in Sources
    BY TypeReq DEF IInv, Locked, TypeOK, Granting, Sources
  <1>2. /\ req[r].step = "locked" /\ req[r].background = Null /\ lock = r
        /\ req[r].background = build.background /\ (req[r].expertise # "unset" => req[r].want)
    BY DEF IInv, Locked, LockOwner, WellAsked, BackgroundCurrent, LoadBackground
  <1>3. aim \in Build /\ aim.background = b
    BY <1>1 DEF Build
  <1>4. offered[b] \in SUBSET Skills
    BY <1>1 DEF TypeOK
  <1>5. rs \in SUBSET SourceRows
    BY <1>4 DEF Sourced, SourceRows, Keys
  <1>6. lists \in Histories /\ offered[b] \in lists[b]
    BY <1>1, ReadType
  <1>7. req' = [req EXCEPT ![r] = now]
    BY DEF LoadBackground
  <1>8. \E S \in lists[b] : rs = Sourced("BACKGROUND", S)
    BY <1>6
  <1> HIDE DEF aim, rs, lists
  <1>9. /\ now \in Request /\ now.step = "loaded" /\ now.target = aim /\ now.new = rs /\ now.since = lists
        /\ now.background = req[r].background /\ now.expertise = req[r].expertise /\ now.want = req[r].want
    BY <1>1, <1>3, <1>5, <1>6 DEF Request, Histories
  <1> HIDE DEF now
  <1>10. WasRead(now)
    BY <1>3, <1>8, <1>9 DEF WasRead
  <1>11. lock' = lock /\ Apart /\ UNCHANGED <<granted, picked, effects>>
    BY DEF LoadBackground, Apart
  <1> QED
    BY <1>2, <1>7, <1>9, <1>10, <1>11, MoveKeeps DEF IInv, Locked, TypeOK

LEMMA AskKeeps ==
  ASSUME IInv, NEW r \in Requests, NEW k \in Keys, NEW want \in BOOLEAN,
         NEW expertise \in {"unset", "yes", "no"}, expertise # "unset" => want,
         Ask(r, k, want, expertise)
  PROVE  IInv'
  <1> DEFINE asked == [Idle EXCEPT !.step = "held", !.key = k, !.want = want, !.expertise = expertise]
  <1>1. /\ asked \in Request /\ asked.step = "held" /\ asked.key = k
        /\ asked.want = want /\ asked.expertise = expertise
    BY IdleType DEF Idle, Request
  <1>2. req' = [req EXCEPT ![r] = asked] /\ lock = NoRequest /\ lock' = r
    BY DEF Ask
  <1> HIDE DEF asked
  <1>3. WasRead(asked)
    BY <1>1 DEF WasRead
  <1>4. Apart /\ UNCHANGED <<granted, picked, effects>>
    BY DEF Ask, Apart
  <1> QED
    BY <1>1, <1>2, <1>3, <1>4, MoveKeeps

LEMMA ReadEntriesKeeps ==
  ASSUME IInv, NEW r \in Requests, ReadEntries(r)
  PROVE  IInv'
  <1> DEFINE now == [req[r] EXCEPT !.step = "read", !.row = gm[req[r].key], !.others = Others(req[r].key)]
  <1>1. /\ req[r] \in Request /\ req[r].step = "held" /\ req[r].key \in Keys /\ lock = r /\ lock' = lock
        /\ (req[r].expertise # "unset" => req[r].want)
    BY TypeReq DEF IInv, Locked, LockOwner, WellAsked, ReadEntries
  <1>2. gm[req[r].key] \in Rows /\ Others(req[r].key) \in SUBSET BOOLEAN
    BY <1>1, OthersType DEF IInv, Locked, TypeOK
  <1>3. /\ now \in Request /\ now.step = "read" /\ now.key = req[r].key /\ now.row = gm[req[r].key]
        /\ now.want = req[r].want /\ now.expertise = req[r].expertise
    BY <1>1, <1>2 DEF Request
  <1>4. req' = [req EXCEPT ![r] = now]
    BY <1>1, TypeReq DEF IInv, Locked, ReadEntries
  <1> HIDE DEF now
  <1>5. WasRead(now)
    BY <1>3 DEF WasRead
  <1>6. Apart /\ UNCHANGED <<granted, picked, effects>>
    BY DEF ReadEntries, Apart
  <1> QED
    BY <1>1, <1>3, <1>4, <1>5, <1>6, MoveKeeps DEF IInv, Locked, TypeOK

\* A transaction that ends: what it wrote is well typed and keeps the rows of
\* the build.
LEMMA EndKeeps ==
  ASSUME IInv, NEW r \in Requests, Done(r), lock = r, RowsFollowBuild',
         build' \in Build, rows' \subseteq SourceRows,
         gm' \in [Keys -> Rows], granted' \subseteq Features, picked' \subseteq Options,
         effects' \subseteq Effects, backgrounds' \subseteq Backgrounds,
         offered' = offered, given' \in Histories
  PROVE  IInv'
  BY DoneKeeps DEF IInv, Locked, TypeOK, Histories

LEMMA OwnsLock ==
  ASSUME IInv, NEW r \in Requests, req[r].step \notin {"idle", "prepared"}
  PROVE  lock = r
  BY DEF IInv, Locked, LockOwner

LEMMA HoldType ==
  ASSUME TypeOK, NEW features \in SUBSET Features, Hold(features)
  PROVE  granted' \subseteq Features /\ picked' \subseteq Options
  BY DEF TypeOK, Hold

LEMMA WriteKeeps ==
  ASSUME IInv, NEW r \in Requests, Write(r)
  PROVE  IInv'
  <1>1. req[r] \in Request /\ req[r].step = "read" /\ req[r].key \in Keys
        /\ (req[r].expertise # "unset" => req[r].want)
    BY TypeReq DEF IInv, Locked, WellAsked, Write
  <1>2. GmRow(req[r].row, req[r].others, req[r].want, req[r].expertise) \in Rows
    BY <1>1, RequestFields, GmRowDecides
  <1>3. gm' \in [Keys -> Rows]
    BY <1>2 DEF IInv, Locked, TypeOK, Write
  <1>4. RowsFollowBuild'
    BY KeepsRows DEF IInv, Write
  <1>5. lock = r
    BY <1>1, OwnsLock
  <1> QED
    BY <1>3, <1>4, <1>5, EndKeeps DEF IInv, Locked, TypeOK, Histories, Write

\* A request that waits for the lock ends without a trace as well.
LEMMA AbortKeeps ==
  ASSUME IInv, NEW r \in Requests, Abort(r)
  PROVE  IInv'
  <1>1. Apart /\ UNCHANGED <<granted, picked, effects>> /\ req' = [req EXCEPT ![r] = Idle]
    BY DEF Abort, Apart, Done
  <1>2. CASE lock = r
    <2>1. RowsFollowBuild'
      BY <1>1, KeepsRows DEF IInv, Apart
    <2> QED
      BY <1>1, <1>2, <2>1, EndKeeps DEF IInv, Locked, TypeOK, Histories, Abort, Apart
  <1>3. CASE lock # r
    <2>1. lock' = lock
      BY <1>3 DEF Abort, Done
    <2> QED
      BY <1>1, <2>1, IdleType, IdleWasRead, MoveKeeps DEF IInv, Locked, TypeOK
  <1> QED
    BY <1>2, <1>3

LEMMA GainFeatureKeeps ==
  ASSUME IInv, NEW r \in Requests, NEW f \in Features, GainFeature(r, f)
  PROVE  IInv'
  <1>1. RowsFollowBuild'
    BY KeepsRows DEF IInv, GainFeature
  <1>2. lock = r
    BY OwnsLock DEF GainFeature
  <1> QED
    BY <1>1, <1>2, EndKeeps, HoldType DEF IInv, Locked, TypeOK, Histories, GainFeature

LEMMA LoseFeatureKeeps ==
  ASSUME IInv, NEW r \in Requests, NEW f \in Features, LoseFeature(r, f)
  PROVE  IInv'
  <1>1. RowsFollowBuild'
    BY KeepsRows DEF IInv, LoseFeature
  <1>2. lock = r
    BY OwnsLock DEF LoseFeature
  <1> QED
    BY <1>1, <1>2, EndKeeps, HoldType DEF IInv, Locked, TypeOK, Histories, LoseFeature

-----------------------------------------------------------------------------
(* The owner's writes to the rows.                                         *)

\* The instance that is checked for a background is the row, so the rows of no
\* other background are there yet, save those deleted ones left.
LEMMA SetBackgroundKeeps ==
  ASSUME IInv, NEW r \in Requests, NEW features \in SUBSET Features, SetBackground(r, features)
  PROVE  IInv'
  <1>1. /\ req[r].step = "loaded" /\ build \in Build /\ build.background = Null
        /\ req[r].since \in Histories /\ given \in Histories
    BY TypeReq, RequestFields DEF IInv, Locked, TypeOK, BackgroundCurrent, SetBackground, Histories
  <1>2. PICK b : b = req[r].target.background
    OBVIOUS
  <1>3. b \in Backgrounds /\ b \in backgrounds /\ b # Null /\ b \in Granting
    BY <1>1, <1>2, NullAssumption DEF IInv, PlansWereRead, WasRead, SetBackground, Granting
  <1>4. PICK S \in req[r].since[b] : req[r].new = Sourced("BACKGROUND", S)
    BY <1>1, <1>2 DEF IInv, PlansWereRead, WasRead
  <1>5. S \in SUBSET Skills
    BY <1>1, <1>3 DEF Histories
  <1>6. /\ build' = [build EXCEPT !.background = b] /\ rows' = rows \cup Sourced("BACKGROUND", S)
        /\ given' = [given EXCEPT ![b] = req[r].since[b]] /\ backgrounds' = backgrounds
    BY <1>2, <1>4 DEF SetBackground
  <1>7. /\ build' \in Build /\ build'.chosen = build.chosen /\ build'.race = build.race
        /\ build'.background = b
    BY <1>1, <1>3, <1>6 DEF Build
  <1>8. given' \in Histories /\ S \in given'[b] /\ \A x \in Granting : x # b => given'[x] = given[x]
    BY <1>1, <1>3, <1>6 DEF Histories
  <1>9. PICK deleted \in SUBSET (Backgrounds \ backgrounds) :
           \E skills \in [SourcesOf(build) \cup deleted -> SUBSET Skills] :
               /\ \A x \in SourcesOf(build) \cup deleted : skills[x] \in given[x]
               /\ {row \in rows : row[1] # "CLASS"} = SkillRows(build, skills) \cup LeftOf(deleted, skills)
    BY FollowNow DEF IInv, Follow
  <1>9a. PICK skills \in [SourcesOf(build) \cup deleted -> SUBSET Skills] :
           /\ \A x \in SourcesOf(build) \cup deleted : skills[x] \in given[x]
           /\ {row \in rows : row[1] # "CLASS"} = SkillRows(build, skills) \cup LeftOf(deleted, skills)
    BY <1>9
  <1>10. /\ b \notin deleted /\ b \notin SourcesOf(build) /\ SourcesOf(build') = SourcesOf(build) \cup {b}
         /\ SourcesOf(build) \cup deleted \subseteq Granting
    <2>1. b \notin deleted /\ build.race # b /\ build.race \in Races \cup {Null}
      BY <1>1, <1>3, SourceAssumption DEF Build
    <2>2. SourcesOf(build') = SourcesOf(build) \cup {b}
      BY <1>1, <1>3, <1>7 DEF SourcesOf
    <2> QED
      BY <1>1, <2>1, <2>2, SourcesType DEF SourcesOf, Granting
  <1> DEFINE all == [x \in SourcesOf(build') \cup deleted |-> IF x = b THEN S ELSE skills[x]]
  <1>11. /\ Listed(all, SourcesOf(build') \cup deleted, given') /\ all[b] = S
         /\ \A x \in SourcesOf(build) \cup deleted : all[x] = skills[x]
    <2>1. ASSUME NEW x \in SourcesOf(build') \cup deleted
          PROVE  all[x] \in SUBSET Skills /\ all[x] \in given'[x]
      BY <1>5, <1>8, <1>9a, <1>10
    <2> QED
      BY <1>10, <2>1 DEF Listed
  <1> HIDE DEF all
  <1>12. SkillRows(build', all) = SkillRows(build, skills) \cup Sourced("BACKGROUND", S)
    <2>1. SkillsOf(build.background, skills) = {} /\ SkillsOf(b, all) = S
      BY <1>1, <1>3, <1>11 DEF SkillsOf
    <2>2. SkillsOf(build.race, all) = SkillsOf(build.race, skills)
      BY <1>11 DEF SkillsOf, SourcesOf
    <2>3. Sourced("BACKGROUND", {}) = {}
      BY DEF Sourced
    <2> QED
      BY <1>7, <2>1, <2>2, <2>3 DEF SkillRows
  <1>13. LeftOf(deleted, all) = LeftOf(deleted, skills)
    BY <1>11 DEF LeftOf
  <1>14. \A row \in Sourced("BACKGROUND", S) : row[1] # "CLASS"
    BY DEF Sourced
  <1>15. {row \in rows' : row[1] # "CLASS"} = SkillRows(build', all) \cup LeftOf(deleted, all)
    BY <1>6, <1>9a, <1>12, <1>13, <1>14
  <1>16. RowsFollowBuild'
    <2>1. deleted \in SUBSET (Backgrounds \ backgrounds')
      BY <1>6
    <2> QED
      BY <1>11, <1>15, <2>1, FollowIs, FollowNow
  <1>17. rows' \subseteq SourceRows
    BY <1>5, <1>6 DEF IInv, Locked, TypeOK, Sourced, SourceRows, Keys
  <1>18. lock = r
    BY <1>1, OwnsLock
  <1> QED
    BY <1>7, <1>8, <1>16, <1>17, <1>18, EndKeeps, HoldType DEF IInv, Locked, TypeOK, SetBackground

\* A rebuild replaces the lists with the rows.
LEMMA RebuildKeeps ==
  ASSUME IInv, NEW r \in Requests, NEW features \in SUBSET Features, Rebuild(r, features)
  PROVE  IInv'
  <1>1. /\ req[r].step = "rebuilding" /\ build' = req[r].target /\ gm' = gm /\ given' = req[r].since
        /\ rows' = req[r].new \cup {row \in rows : row[1] = "CLASS"}
    BY DEF Rebuild, Rebuilt
  <1>2. /\ build' \in Build /\ given' \in Histories /\ req[r].new \in SUBSET SourceRows
    BY <1>1, TypeReq, RequestFields DEF IInv, Locked, PlansWereRead, WasRead
  <1>3. PICK skills : Listed(skills, SourcesOf(build'), given') /\ req[r].new = SkillRows(build', skills)
    BY <1>1 DEF IInv, PlansWereRead, WasRead
  <1>4. \A row \in SkillRows(build', skills) : row[1] # "CLASS"
    BY <1>2, <1>3, SkillRowsType DEF Listed
  <1>5. RowsFollowBuild'
    <2>1. LeftOf({}, skills) = {}
      BY DEF LeftOf, Sourced
    <2>2. {row \in rows' : row[1] # "CLASS"} = SkillRows(build', skills) \cup LeftOf({}, skills)
      BY <1>1, <1>3, <1>4, <2>1
    <2>3. SourcesOf(build') \cup {} = SourcesOf(build')
      OBVIOUS
    <2>4. {} \in SUBSET (Backgrounds \ backgrounds')
      OBVIOUS
    <2> QED
      BY <1>3, <2>2, <2>3, <2>4, FollowIs, FollowNow
  <1>6. rows' \subseteq SourceRows
    BY <1>1, <1>2 DEF IInv, Locked, TypeOK
  <1>7. lock = r
    BY <1>1, OwnsLock
  <1> QED
    BY <1>1, <1>2, <1>5, <1>6, <1>7, EndKeeps, HoldType DEF IInv, Locked, TypeOK, Rebuild

\* What a deleted background gave stays; the character has no background.
LEMMA DeleteBackgroundKeeps ==
  ASSUME IInv, NEW b \in Backgrounds, DeleteBackground(b)
  PROVE  IInv'
  <1>1. /\ build \in Build /\ rows' = rows /\ backgrounds' = backgrounds \ {b} /\ given' = given
        /\ build' = [build EXCEPT !.background = IF @ = b THEN Null ELSE @] /\ b # Null
    BY NullAssumption DEF IInv, Locked, TypeOK, DeleteBackground
  <1>2. PICK deleted \in SUBSET (Backgrounds \ backgrounds) :
           \E skills \in [SourcesOf(build) \cup deleted -> SUBSET Skills] :
               /\ \A x \in SourcesOf(build) \cup deleted : skills[x] \in given[x]
               /\ {row \in rows : row[1] # "CLASS"} = SkillRows(build, skills) \cup LeftOf(deleted, skills)
    BY FollowNow DEF IInv, Follow
  <1>2a. PICK skills \in [SourcesOf(build) \cup deleted -> SUBSET Skills] :
           /\ \A x \in SourcesOf(build) \cup deleted : skills[x] \in given[x]
           /\ {row \in rows : row[1] # "CLASS"} = SkillRows(build, skills) \cup LeftOf(deleted, skills)
    BY <1>2
  <1>3. TypeOK' /\ (build.background # b => build' = build)
    BY <1>1 DEF IInv, Locked, TypeOK, Build, DeleteBackground
  <1>4. LockOwner' /\ WellAsked' /\ DecidedOnCurrent' /\ PlansWereRead'
    <2>1. UNCHANGED <<req, lock, gm>>
      BY DEF DeleteBackground
    <2>2. LockOwner' /\ WellAsked' /\ DecidedOnCurrent'
      BY <2>1 DEF IInv, Locked, LockOwner, WellAsked, DecidedOnCurrent
    <2> QED
      BY <2>1, <2>2, PlansLater DEF IInv, PlansWereRead
  <1>5. CASE build.background # b
    <2>1. RowsFollowBuild'
      <3>1. deleted \in SUBSET (Backgrounds \ backgrounds') /\ Listed(skills, SourcesOf(build') \cup deleted, given')
        BY <1>1, <1>2a, <1>3, <1>5 DEF Listed
      <3> QED
        BY <1>1, <1>2a, <1>3, <1>5, <3>1, FollowIs, FollowNow
    <2>2. BackgroundCurrent'
      BY <1>3, <1>5 DEF IInv, BackgroundCurrent, DeleteBackground
    <2> QED
      BY <1>3, <1>4, <2>1, <2>2 DEF IInv, Locked
  <1>6. CASE build.background = b
    <2>1. /\ build' \in Build /\ build'.chosen = build.chosen /\ build'.race = build.race
          /\ build'.background = Null
      BY <1>1, <1>6 DEF Build
    <2>2. /\ SourcesOf(build') \cup (deleted \cup {b}) = SourcesOf(build) \cup deleted
          /\ b \in SourcesOf(build) \cup deleted
      BY <1>1, <1>6, <2>1 DEF SourcesOf
    <2>3. SkillRows(build, skills) = SkillRows(build', skills) \cup Sourced("BACKGROUND", skills[b])
      <3>1. SkillsOf(b, skills) = skills[b] /\ SkillsOf(Null, skills) = {}
        BY <1>1 DEF SkillsOf
      <3>2. Sourced("BACKGROUND", {}) = {}
        BY DEF Sourced
      <3> QED
        BY <1>6, <2>1, <3>1, <3>2 DEF SkillRows
    <2>4. LeftOf(deleted \cup {b}, skills) = LeftOf(deleted, skills) \cup Sourced("BACKGROUND", skills[b])
      BY DEF LeftOf, Sourced
    <2>5. deleted \cup {b} \in SUBSET (Backgrounds \ backgrounds')
      BY <1>1, <1>2a
    <2>6. {row \in rows' : row[1] # "CLASS"} = SkillRows(build', skills) \cup LeftOf(deleted \cup {b}, skills)
      BY <1>1, <1>2a, <2>3, <2>4
    <2>7. Listed(skills, SourcesOf(build') \cup (deleted \cup {b}), given')
      BY <1>1, <1>2a, <2>2 DEF Listed
    <2>8. RowsFollowBuild'
      BY <2>5, <2>6, <2>7, FollowIs, FollowNow
    <2>9. \A r \in Requests : req[r].step \in {"idle", "prepared"}
      BY <1>6, NullAssumption DEF DeleteBackground, IInv, Locked, LockOwner
    <2>10. BackgroundCurrent'
      BY <2>9 DEF BackgroundCurrent, DeleteBackground
    <2> QED
      BY <1>3, <1>4, <2>8, <2>10 DEF IInv, Locked
  <1> QED
    BY <1>5, <1>6

-----------------------------------------------------------------------------
(* What goes on without the lock: answers, edits of effects and of skills. *)

LEMMA UnlockedKeeps ==
  ASSUME IInv, Apart, UNCHANGED <<lock, req, granted>>, picked' \subseteq Options, effects' \subseteq Effects
  PROVE  IInv'
  <1>1. RowsFollowBuild'
    BY KeepsRows DEF IInv, Apart
  <1>2. PlansWereRead'
    BY PlansLater DEF IInv, PlansWereRead
  <1> QED
    BY <1>1, <1>2 DEF IInv, Locked, TypeOK, LockOwner, WellAsked, DecidedOnCurrent, BackgroundCurrent, Apart

\* A replaced list leaves the rows: it is one more the source has granted since.
LEMMA SetSkillsKeeps ==
  ASSUME IInv, NEW x \in Sources, NEW S \in SUBSET Skills, SetSkills(x, S)
  PROVE  IInv'
  <1>1. /\ TypeOK /\ build \in Build /\ given \in Histories /\ given' = Noted(given, x, S)
        /\ UNCHANGED <<build, rows, gm, granted, picked, effects, backgrounds, lock>>
    BY DEF IInv, Locked, TypeOK, SetSkills, Histories
  <1>2. given' \in Histories /\ \A y \in Granting : given[y] \subseteq given'[y]
    BY <1>1, NotedGrows
  <1>3. ASSUME NEW r \in Requests
        PROVE  /\ req'[r] \in Request /\ req'[r].step = req[r].step /\ req'[r].key = req[r].key
               /\ req'[r].want = req[r].want /\ req'[r].expertise = req[r].expertise
               /\ req'[r].row = req[r].row /\ req'[r].background = req[r].background
               /\ WasRead(req'[r])
    <2>1. req[r] \in Request /\ req[r].since \in Histories
      BY <1>1, TypeReq, RequestFields
    <2>2. PICK lists : lists = Noted(req[r].since, x, S)
      OBVIOUS
    <2>3. lists \in Histories /\ \A y \in Granting : req[r].since[y] \subseteq lists[y]
      BY <2>1, <2>2, NotedGrows
    <2>4. req'[r] = [req[r] EXCEPT !.since = lists]
      BY <2>2 DEF SetSkills
    <2>5. /\ req'[r] \in Request /\ req'[r].step = req[r].step /\ req'[r].key = req[r].key
          /\ req'[r].want = req[r].want /\ req'[r].expertise = req[r].expertise
          /\ req'[r].row = req[r].row /\ req'[r].background = req[r].background
          /\ req'[r].target = req[r].target /\ req'[r].new = req[r].new /\ req'[r].since = lists
      BY <2>1, <2>3, <2>4 DEF Request, Histories
    <2>6. WasRead(req'[r])
      BY <2>1, <2>3, <2>5, WasReadGrows DEF IInv, PlansWereRead
    <2> QED
      BY <2>5, <2>6
  <1>4. TypeOK'
    <2>1. offered' \in [Sources -> SUBSET Skills]
      BY <1>1 DEF TypeOK, SetSkills
    <2>2. req' \in [Requests -> Request]
      <3>1. req' = [r \in Requests |-> req'[r]]
        BY DEF SetSkills
      <3> QED
        BY <1>3, <3>1
    <2> QED
      BY <1>1, <1>2, <2>1, <2>2 DEF TypeOK, Histories
  <1>5. LockOwner' /\ WellAsked' /\ DecidedOnCurrent' /\ BackgroundCurrent'
    BY <1>1, <1>3 DEF IInv, Locked, LockOwner, WellAsked, DecidedOnCurrent, BackgroundCurrent
  <1>6. PlansWereRead'
    BY <1>3, PlansLater
  <1>7. RowsFollowBuild'
    BY <1>1, <1>2, FollowNow, FollowGrows DEF IInv
  <1> QED
    BY <1>4, <1>5, <1>6, <1>7 DEF IInv, Locked

LEMMA OptionsType ==
  ASSUME NEW f
  PROVE  OptionsOf(f) \subseteq Options
  BY EffectAssumption DEF OptionsOf

\* What any request of the GM panel asks.
LEMMA AskedOf ==
  ASSUME NEW r \in Requests, GmPanel(r)
  PROVE  \E k \in Keys, want \in BOOLEAN, expertise \in {"unset", "yes", "no"} :
             (expertise # "unset" => want) /\ Ask(r, k, want, expertise)
  <1>1. ASSUME NEW k \in Keys, NEW want \in BOOLEAN, Ask(r, k, want, "unset")
        PROVE  \E key \in Keys, w \in BOOLEAN, expertise \in {"unset", "yes", "no"} :
                   (expertise # "unset" => w) /\ Ask(r, key, w, expertise)
    BY <1>1, Zenon
  <1>2. ASSUME NEW k \in Skills, NEW expertise \in {"yes", "no"}, Ask(r, k, TRUE, expertise)
        PROVE  \E key \in Keys, w \in BOOLEAN, x \in {"unset", "yes", "no"} :
                   (x # "unset" => w) /\ Ask(r, key, w, x)
    BY <1>2, Zenon DEF Keys
  <1>3. Skills \subseteq Keys /\ Throws \subseteq Keys /\ Armor \subseteq Keys /\ Weapons \subseteq Keys
    BY DEF Keys
  <1> QED
    BY <1>1, <1>2, <1>3 DEF GmPanel, AddSkill, RemoveSkill, SetSkillExpertise, AddSavingThrow,
       RemoveSavingThrow, AddArmor, RemoveArmor, AddWeapon, RemoveWeapon

LEMMA InductiveStep == IInv /\ [Next]_vars => IInv'
  <1> SUFFICES ASSUME IInv, [Next]_vars PROVE IInv'
    OBVIOUS
  <1>1. CASE UNCHANGED vars
    BY <1>1, UnlockedKeeps DEF vars, Apart, IInv, Locked, TypeOK
  <1>2. ASSUME NEW r \in Requests, LockCharacter(r) PROVE IInv'
    BY <1>2, LockCharacterKeeps
  <1>3. ASSUME NEW r \in Requests, ReadEntries(r) PROVE IInv'
    BY <1>3, ReadEntriesKeeps
  <1>4. ASSUME NEW r \in Requests, Write(r) PROVE IInv'
    BY <1>4, WriteKeeps
  <1>5. ASSUME NEW r \in Requests, Abort(r) PROVE IInv'
    BY <1>5, AbortKeeps
  <1>6. ASSUME NEW r \in Requests, GmPanel(r) PROVE IInv'
    <2>1. PICK k \in Keys, want \in BOOLEAN, expertise \in {"unset", "yes", "no"} :
             (expertise # "unset" => want) /\ Ask(r, k, want, expertise)
      BY <1>6, AskedOf
    <2> QED
      BY <2>1, AskKeeps
  <1>7. ASSUME NEW r \in Requests, NEW features \in SUBSET Features, SetBackground(r, features) PROVE IInv'
    BY <1>7, SetBackgroundKeeps
  <1>8. ASSUME NEW r \in Requests, NEW features \in SUBSET Features, Rebuild(r, features) PROVE IInv'
    BY <1>8, RebuildKeeps
  <1>9. ASSUME NEW r \in Requests, NEW f \in Features, GainFeature(r, f) \/ LoseFeature(r, f) PROVE IInv'
    BY <1>9, GainFeatureKeeps, LoseFeatureKeeps
  <1>10. ASSUME NEW f \in Features, NEW options \in SUBSET Options, AnswerChoices(f, options) PROVE IInv'
    BY <1>10, UnlockedKeeps, OptionsType DEF AnswerChoices, Apart, IInv, Locked, TypeOK
  <1>11. ASSUME NEW e \in Effects, EditEffects(e) PROVE IInv'
    BY <1>11, UnlockedKeeps DEF EditEffects, Apart, IInv, Locked, TypeOK
  <1>12. ASSUME NEW b \in Backgrounds, DeleteBackground(b) PROVE IInv'
    BY <1>12, DeleteBackgroundKeeps
  <1>13. ASSUME NEW r \in Requests, NEW b \in Builds, Prepare(r, b) PROVE IInv'
    BY <1>13, PrepareKeeps
  <1>14. ASSUME NEW r \in Requests, NEW b \in Backgrounds, LoadBackground(r, b) PROVE IInv'
    BY <1>14, LoadBackgroundKeeps
  <1>15. ASSUME NEW x \in Sources, NEW S \in SUBSET Skills, SetSkills(x, S) PROVE IInv'
    BY <1>15, SetSkillsKeeps
  <1> QED
    BY <1>1, <1>2, <1>3, <1>4, <1>5, <1>6, <1>7, <1>8, <1>9, <1>10, <1>11, <1>12, <1>13, <1>14, <1>15 DEF Next

LEMMA Inductive == Spec => []IInv
  BY InitIInv, InductiveStep, PTL DEF Spec

\* Every variable keeps its type, whatever the requests do.
THEOREM TypeCorrect == Spec => []TypeOK
  <1>1. IInv => TypeOK
    BY DEF IInv, Locked
  <1> QED
    BY <1>1, Inductive, PTL

\* The skill rows are the skills chosen and whole lists that the race and the
\* background the character has, and backgrounds deleted under it, have granted
\* since they were read for them, whichever of set_background and rebuild came
\* first and whatever set_skills replaced in between.
THEOREM RowsAreOfTheBuild == Spec => []RowsFollowBuild
  <1>1. IInv => RowsFollowBuild
    BY DEF IInv
  <1> QED
    BY <1>1, Inductive, PTL

\* The GM's layer a write decides on (CharacterProficiencyGmRepository.apply) is
\* the one it replaces.
THEOREM NothingDecidedOnStale == Spec => []DecidedOnCurrent
  <1>1. IInv => DecidedOnCurrent
    BY DEF IInv, Locked
  <1> QED
    BY <1>1, Inductive, PTL

-----------------------------------------------------------------------------
(* What the GM decided holds.                                              *)

\* A step that leaves the GM's layer alone changes a proficiency only where the
\* GM has no row.
LEMMA DecidedIsFixed ==
  ASSUME TypeOK, gm' = gm, NEW k \in Keys, Proficient(k)' # Proficient(k)
  PROVE  gm[k] = NoRow /\ gm'[k] = NoRow /\ Others(k)' # Others(k)
  <1>1. gm[k] \in Rows /\ gm'[k] = gm[k]
    BY DEF TypeOK
  <1>2. gm[k].action # "GRANT" /\ gm[k].action # "REVOKE"
    BY <1>1 DEF Proficient, Holds
  <1>3. gm[k] = NoRow
    BY <1>1, <1>2, RowCases
  <1> QED
    BY <1>1, <1>3 DEF Proficient

\* Only a write changes the GM's layer.
LEMMA OnlyWrites ==
  ASSUME Next
  PROVE  gm' = gm \/ \E r \in Requests : Write(r)
  BY DEF Next, GmPanel, AddSkill, RemoveSkill, SetSkillExpertise, AddSavingThrow, RemoveSavingThrow,
         AddArmor, RemoveArmor, AddWeapon, RemoveWeapon, Ask, LockCharacter, ReadEntries, Abort,
         Prepare, LoadBackground, SetSkills, SetBackground, Rebuild, Rebuilt, GainFeature, LoseFeature, AnswerChoices, EditEffects, DeleteBackground

\* A write leaves every other proficiency, and what the sources claim, as they were.
LEMMA WriteIsLocal ==
  ASSUME IInv, NEW r \in Requests, Write(r)
  PROVE  /\ req[r].step = "read" /\ req'[r] = Idle /\ req[r].key \in Keys
         /\ \A k \in Keys : Others(k)' = Others(k) /\ (k # req[r].key => gm'[k] = gm[k])
         /\ gm'[req[r].key] = GmRow(req[r].row, req[r].others, req[r].want, req[r].expertise)
  <1>1. req[r].step = "read" /\ req[r].key \in Keys
    BY DEF IInv, Locked, WellAsked, Write
  <1>2. req'[r] = Idle
    BY DoneType DEF IInv, Locked, Write
  <1>3. gm' = [gm EXCEPT ![req[r].key] = GmRow(req[r].row, req[r].others, req[r].want, req[r].expertise)]
    BY DEF Write
  <1>4. ASSUME NEW k \in Keys PROVE Others(k)' = Others(k)
    BY DEF Write, Others, Effective
  <1> QED
    BY <1>1, <1>2, <1>3, <1>4 DEF IInv, Locked, TypeOK

\* The GM's veto and grant win over every other source, and only a GM's write
\* changes them.
THEOREM TheGmDecides == Spec => GmDecides
  <1> DEFINE Decides ==
        \A k \in Keys : Proficient(k)' # Proficient(k) =>
            \/ \E r \in Requests : Wrote(r) /\ req[r].key = k
            \/ gm[k] = NoRow /\ gm'[k] = NoRow /\ Others(k)' # Others(k)
  <1>1. IInv /\ [Next]_vars => [Decides]_vars
    <2> SUFFICES ASSUME IInv, Next PROVE Decides
      OBVIOUS
    <2> SUFFICES ASSUME NEW k \in Keys, Proficient(k)' # Proficient(k)
                 PROVE  \/ \E r \in Requests : Wrote(r) /\ req[r].key = k
                        \/ gm[k] = NoRow /\ gm'[k] = NoRow /\ Others(k)' # Others(k)
      OBVIOUS
    <2>1. CASE gm' = gm
      BY <2>1, DecidedIsFixed DEF IInv, Locked
    <2>2. CASE gm' # gm
      <3>1. PICK r \in Requests : Write(r)
        BY <2>2, OnlyWrites
      <3>2. req[r].key = k
        BY <3>1, WriteIsLocal DEF Proficient
      <3>3. Wrote(r)
        BY <2>2, <3>1, WriteIsLocal DEF Wrote
      <3> QED
        BY <3>2, <3>3
    <2> QED
      BY <2>1, <2>2
  <1> QED
    BY <1>1, Inductive, PTL DEF Spec, GmDecides

\* A write leaves the proficiency, and its expertise where the GM set one, as
\* asked: apply reaches every target from every combination of sources.
THEOREM WrittenAsAsked == Spec => AsAsked
  <1> DEFINE Asked ==
        \A r \in Requests, k \in Keys :
            Wrote(r) /\ req[r].key = k /\ req[r].others = Others(k) =>
                /\ Proficient(k)' = req[r].want
                /\ req[r].expertise # "unset" =>
                       (Expert(gm[k], Others(k))' <=> req[r].expertise = "yes")
  <1>1. IInv /\ [Next]_vars => [Asked]_vars
    <2> SUFFICES ASSUME IInv, Next, NEW r \in Requests, NEW k \in Keys,
                        Wrote(r), req[r].key = k, req[r].others = Others(k)
                 PROVE  /\ Proficient(k)' = req[r].want
                        /\ req[r].expertise # "unset" =>
                               (Expert(gm[k], Others(k))' <=> req[r].expertise = "yes")
      OBVIOUS
    <2>1. PICK w \in Requests : Write(w)
      BY OnlyWrites DEF Wrote
    <2>2. w = r
      BY <2>1, WriteIsLocal DEF Wrote, IInv, Locked, LockOwner
    <2>3. gm'[k] = GmRow(req[r].row, Others(k), req[r].want, req[r].expertise) /\ Others(k)' = Others(k)
      BY <2>1, <2>2, WriteIsLocal
    <2>4. /\ req[r].row \in Rows /\ req[r].want \in BOOLEAN /\ Others(k) \in SUBSET BOOLEAN
          /\ req[r].expertise \in {"unset", "yes", "no"} /\ (req[r].expertise # "unset" => req[r].want)
      BY TypeReq, RequestFields, OthersType DEF IInv, Locked, WellAsked
    <2> DEFINE new == GmRow(req[r].row, Others(k), req[r].want, req[r].expertise)
    <2>5. /\ Holds(new, Others(k)) = req[r].want
          /\ req[r].expertise # "unset" => (Expert(new, Others(k)) <=> req[r].expertise = "yes")
      BY <2>4, GmRowDecides
    <2>6. Proficient(k)' = Holds(gm'[k], Others(k)') /\ Expert(gm[k], Others(k))' = Expert(gm'[k], Others(k)')
      BY DEF Proficient, Holds, Expert
    <2> QED
      BY <2>3, <2>5, <2>6
  <1> QED
    BY <1>1, Inductive, PTL DEF Spec, AsAsked
=============================================================================
