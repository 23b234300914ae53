------------------------ MODULE CharacterSheetProofs ------------------------
(***************************************************************************)
(* The character's lock keeps its promises for any number of requests, any *)
(* reference data and any level: no write under it works from an old row,  *)
(* every ASI level reached is resolved once, and the feature grants follow *)
(* the build.  The strengthening is LockOwner: who is past its lock owns   *)
(* it, so at most one request is, and only it (or the GM's one statement,  *)
(* which waits for the lock) changes the row.                              *)
(***************************************************************************)
EXTENDS CharacterSheet, TLAPS

\* Past the row's lock a request owns it.
LockOwner == \A r \in Requests : req[r].step \in {"held", "locked"} => lock = r

Locked == TypeOK /\ LockOwner /\ InstanceCurrent

-----------------------------------------------------------------------------
(* The operators.                                                          *)

LEMMA BuildFields ==
  ASSUME NEW b \in Build
  PROVE  /\ b.level \in 1..MaxLevel /\ b.level \in Nat
         /\ b.subclass \in Subclasses \cup {Null} /\ b.background \in Backgrounds \cup {Null}
         /\ b = [level |-> b.level, subclass |-> b.subclass, background |-> b.background]
  BY NumberAssumption DEF Build

LEMMA HpFields ==
  ASSUME NEW h \in Hp
  PROVE  /\ h.max \in Nat /\ h.current \in Nat /\ h.temp \in Nat
         /\ h = [max |-> h.max, current |-> h.current, temp |-> h.temp]
  BY DEF Hp

\* Full hit points are well formed.
LEMMA FullHpType ==
  ASSUME NEW n \in Nat
  PROVE  FullHp(n) \in Hp /\ FullHp(n).current <= FullHp(n).max /\ FullHp(n).max = n
  BY DEF FullHp, Hp

\* Damage and healing keep the hit points within their bounds.
LEMMA DamagedType ==
  ASSUME NEW h \in Hp, h.current <= h.max, NEW delta \in Int
  PROVE  /\ Damaged(h, delta) \in Hp
         /\ Damaged(h, delta).current <= Damaged(h, delta).max /\ Damaged(h, delta).max = h.max
  <1>1. CASE delta >= 0
    <2>1. Damaged(h, delta) = [max |-> h.max, current |-> Least(h.current + delta, h.max), temp |-> h.temp]
      BY <1>1, HpFields DEF Damaged
    <2> QED
      BY <1>1, <2>1, HpFields DEF Hp, Least
  <1>2. CASE ~(delta >= 0)
    <2> DEFINE absorbed == Least(h.temp, -delta)
    <2>1. /\ absorbed \in Nat /\ absorbed <= h.temp /\ absorbed <= -delta
      BY <1>2, HpFields DEF Least
    <2>2. Damaged(h, delta) = [h EXCEPT !.current = Most(0, h.current + delta + absorbed),
                                        !.temp = h.temp - absorbed]
      BY <1>2 DEF Damaged
    <2> HIDE DEF absorbed
    <2>3. Damaged(h, delta) = [max |-> h.max, current |-> Most(0, h.current + delta + absorbed),
                               temp |-> h.temp - absorbed]
      BY <2>2, HpFields
    <2>4. Most(0, h.current + delta + absorbed) \in Nat /\ Most(0, h.current + delta + absorbed) <= h.max
      BY <1>2, <2>1, HpFields DEF Most
    <2>5. h.temp - absorbed \in Nat
      BY <2>1, HpFields
    <2> QED
      BY <2>3, <2>4, <2>5, HpFields DEF Hp
  <1> QED
    BY <1>1, <1>2

\* Grants keep their type and reconciling makes them those of the build.
Sourced == [Grantable -> {"", "AUTO", "GM", "ASI"}]

LEMMA SyncType ==
  ASSUME NEW g \in Sourced, NEW b
  PROVE  Sync(g, b) \in Sourced
  BY DEF Sync, Sourced

\* What a reconciliation leaves: the unlocked features are granted, and only
\* they automatically.
LEMMA SyncReconciles ==
  ASSUME NEW g \in Sourced, NEW b, NEW f \in Features
  PROVE  /\ Sync(g, b)[f] = "AUTO" => f \in Desired(b)
         /\ f \in Desired(b) => Sync(g, b)[f] # ""
  BY DEF Sync, Sourced, Grantable

\* A reconciliation leaves the ASI feats alone.
LEMMA SyncKeepsFeats ==
  ASSUME NEW g \in Sourced, NEW b, NEW t \in Feats
  PROVE  Sync(g, b)[t] = "ASI" <=> g[t] = "ASI"
  BY SourceAssumption DEF Sync, Sourced, Grantable, Desired

LEMMA GrantedType ==
  ASSUME NEW g \in Sourced, NEW c, NEW s \in {"", "AUTO", "GM", "ASI"}
  PROVE  Granted(g, c, s) \in Sourced
  BY DEF Granted, Sourced

-----------------------------------------------------------------------------
(* The lock.                                                               *)

Row == [step : {"idle", "loaded", "held", "locked"}, build : Build, hp : Hp]

LEMMA IdleType == Idle \in Row
  <1>1. NoBuild \in Build
    BY NumberAssumption DEF NoBuild, Build
  <1> QED
    BY <1>1, FullHpType DEF Idle, Row

\* Types, the lock's owner and the instances, of the request columns alone.
Requested ==
    /\ lock \in Requests \cup {NoRequest} /\ req \in [Requests -> Row]
    /\ LockOwner /\ InstanceCurrent

\* The owner of the lock ends: nobody is past it any more.
LEMMA OwnerEnds ==
  ASSUME TypeOK, LockOwner, NEW r \in Requests, req[r].step \in {"held", "locked"}, Done(r)
  PROVE  Requested'
  <1>1. req \in [Requests -> Row] /\ lock = r
    BY DEF TypeOK, Row, LockOwner
  <1>2. req'[r].step = "idle" /\ \A q \in Requests : q # r => req'[q] = req[q]
    BY <1>1 DEF Done, Idle
  <1>3. \A q \in Requests : req'[q].step \notin {"held", "locked"}
    BY <1>1, <1>2 DEF LockOwner
  <1>4. req' \in [Requests -> Row] /\ lock' = NoRequest
    BY <1>1, IdleType DEF Done
  <1> QED
    BY <1>3, <1>4 DEF Requested, LockOwner, InstanceCurrent

\* A request takes the free lock, with the row it reads or its old instance.
LEMMA OwnerBegins ==
  ASSUME TypeOK, LockOwner, NEW r \in Requests, lock = NoRequest, lock' = r,
         UNCHANGED <<build, hp>>,
         NEW row \in Row, req' = [req EXCEPT ![r] = row],
         row.step = "held" \/ (row.step = "locked" /\ row.build = build /\ row.hp = hp)
  PROVE  Requested'
  <1>1. req \in [Requests -> Row]
    BY DEF TypeOK, Row
  <1>2. req' \in [Requests -> Row] /\ req'[r] = row /\ \A q \in Requests : q # r => req'[q] = req[q]
    BY <1>1
  <1>3. \A q \in Requests : req[q].step \notin {"held", "locked"}
    BY NullAssumption DEF LockOwner
  <1> QED
    BY <1>2, <1>3 DEF Requested, LockOwner, InstanceCurrent

\* Nobody is past the lock while it is free, and an owner is alone.
LEMMA OwnerAlone ==
  ASSUME TypeOK, LockOwner, NEW r \in Requests, req[r].step \in {"held", "locked"},
         NEW q \in Requests, q # r
  PROVE  req[q].step \notin {"held", "locked"}
  BY DEF LockOwner

-----------------------------------------------------------------------------
(* Locked is an invariant: one lemma for each kind of step.                *)

LEMMA InitLocked == Init => Locked
  <1> SUFFICES ASSUME Init PROVE Locked
    OBVIOUS
  <1>1. build \in Build /\ hp \in Hp /\ hp.current <= hp.max /\ cap \in 1..MaxLevel
    <2>1. Die \in Nat /\ 1 \in 1..MaxLevel
      BY NumberAssumption
    <2>2. build \in Build /\ hp = FullHp(Die) /\ cap = 1
      BY DEF Init
    <2> QED
      BY <2>1, <2>2, FullHpType
  <1>2. grants \in Sourced
    <2>1. [f \in Grantable |-> ""] \in Sourced
      BY DEF Sourced
    <2> QED
      BY <2>1, SyncType DEF Init
  <1>3. log \in [AsiLevels -> Choices \cup {Null}] /\ freed \subseteq AsiLevels /\ kits \in 0..MaxKits
    <2>1. 0 \in 0..MaxKits
      BY NumberAssumption
    <2> QED
      BY <2>1 DEF Init
  <1>4. lock \in Requests \cup {NoRequest} /\ req \in [Requests -> Row]
    BY IdleType DEF Init
  <1>5. LockOwner /\ InstanceCurrent
    BY DEF Init, LockOwner, InstanceCurrent, Idle
  <1> QED
    BY <1>1, <1>2, <1>3, <1>4, <1>5 DEF Locked, TypeOK, Row, Sourced

\* What an action leaves of TypeOK once the requests are settled.
LEMMA LockedFrom ==
  ASSUME Requested', build' \in Build, hp' \in Hp, hp'.current <= hp'.max, cap' \in 1..MaxLevel,
         grants' \in Sourced, log' \in [AsiLevels -> Choices \cup {Null}],
         freed' \subseteq AsiLevels, kits' \in 0..MaxKits
  PROVE  Locked'
  BY DEF Requested, Locked, TypeOK, Row, Sourced

LEMMA Columns ==
  ASSUME TypeOK
  PROVE  /\ build \in Build /\ hp \in Hp /\ hp.current <= hp.max /\ cap \in 1..MaxLevel
         /\ grants \in Sourced /\ log \in [AsiLevels -> Choices \cup {Null}]
         /\ freed \subseteq AsiLevels /\ kits \in 0..MaxKits /\ req \in [Requests -> Row]
  BY DEF TypeOK, Row, Sourced

LEMMA LoadLocked ==
  ASSUME Locked, NEW r \in Requests, Load(r)
  PROVE  Locked'
  <1>1. [step |-> "loaded", build |-> build, hp |-> FullHp(0)] \in Row
    BY Columns, FullHpType DEF Locked, Row
  <1>2. /\ req' \in [Requests -> Row] /\ req'[r].step = "loaded"
        /\ \A q \in Requests : q # r => req'[q] = req[q]
    BY <1>1, Columns DEF Load, Locked
  <1>3. Requested'
    BY <1>2 DEF Load, Locked, TypeOK, Requested, LockOwner, InstanceCurrent
  <1> QED
    BY <1>3, Columns, LockedFrom DEF Load, Locked

LEMMA LockCharacterLocked ==
  ASSUME Locked, NEW r \in Requests, LockCharacter(r)
  PROVE  Locked'
  <1>1. [step |-> "locked", build |-> build, hp |-> hp] \in Row
    BY Columns DEF Locked, Row
  <1>2. Requested'
    BY <1>1, OwnerBegins DEF LockCharacter, Locked
  <1> QED
    BY <1>2, Columns, LockedFrom DEF LockCharacter, Locked

LEMMA LockOnlyLocked ==
  ASSUME Locked, NEW r \in Requests, LockOnly(r)
  PROVE  Locked'
  <1> DEFINE row == [req[r] EXCEPT !.step = "held"]
  <1>1. row \in Row /\ row.step = "held"
    BY Columns DEF Locked, Row
  <1>2. req' = [req EXCEPT ![r] = row]
    BY DEF LockOnly
  <1>3. Requested'
    BY <1>1, <1>2, OwnerBegins DEF LockOnly, Locked
  <1> QED
    BY <1>3, Columns, LockedFrom DEF LockOnly, Locked

LEMMA AbortLocked ==
  ASSUME Locked, NEW r \in Requests, Abort(r)
  PROVE  Locked'
  <1>1. CASE req[r].step \in {"held", "locked"}
    BY <1>1, OwnerEnds, Columns, LockedFrom DEF Abort, Locked
  <1>2. CASE req[r].step \notin {"held", "locked"}
    <2>1. /\ req' \in [Requests -> Row] /\ req'[r].step = "idle"
          /\ \A q \in Requests : q # r => req'[q] = req[q]
      BY Columns, IdleType DEF Abort, Done, Locked, Idle
    <2>2. \A q \in Requests : req[q].step \in {"held", "locked"} => lock = q /\ q # r
      BY <1>2 DEF Locked, LockOwner
    <2>3. lock' \in Requests \cup {NoRequest} /\ (lock # r => lock' = lock)
      BY DEF Abort, Done, Locked, TypeOK
    <2>4. Requested'
      BY <2>1, <2>2, <2>3 DEF Requested, Locked, LockOwner, InstanceCurrent, Abort
    <2> QED
      BY <2>4, Columns, LockedFrom DEF Abort, Locked
  <1> QED
    BY <1>1, <1>2

\* The writes below are made past the lock, and end with it.
LEMMA OwnerWrites ==
  ASSUME Locked, NEW r \in Requests, req[r].step \in {"held", "locked"}, Done(r),
         build' \in Build, hp' \in Hp, hp'.current <= hp'.max, cap' \in 1..MaxLevel,
         grants' \in Sourced, log' \in [AsiLevels -> Choices \cup {Null}],
         freed' \subseteq AsiLevels, kits' \in 0..MaxKits
  PROVE  Locked'
  BY OwnerEnds, LockedFrom DEF Locked

\* What the owner of the lock reads is the row.
LEMMA Instance ==
  ASSUME Locked, NEW r \in Requests, req[r].step = "locked"
  PROVE  req[r].build = build /\ req[r].hp = hp
  BY DEF Locked, InstanceCurrent

LEMMA SetSubclassLocked ==
  ASSUME Locked, NEW r \in Requests, NEW s \in Subclasses \cup {Null}, SetSubclass(r, s)
  PROVE  Locked'
  <1>1. build' \in Build
    BY Columns DEF SetSubclass, Locked, Build
  <1>2. grants' \in Sourced
    BY Columns, SyncType DEF SetSubclass, Locked
  <1> QED
    BY <1>1, <1>2, Columns, OwnerWrites DEF SetSubclass, Locked

LEMMA SetBackgroundLocked ==
  ASSUME Locked, NEW r \in Requests, NEW g \in Backgrounds, SetBackground(r, g)
  PROVE  Locked'
  <1>1. build' \in Build
    BY Columns DEF SetBackground, Locked, Build
  <1>2. grants' \in Sourced
    BY Columns, SyncType DEF SetBackground, Locked
  <1>3. kits' \in 0..MaxKits
    BY Columns, NumberAssumption DEF SetBackground, Locked
  <1> QED
    BY <1>1, <1>2, <1>3, Columns, OwnerWrites DEF SetBackground, Locked

LEMMA LevelUpLocked ==
  ASSUME Locked, NEW r \in Requests, NEW choice \in Choices \cup {Null}, NEW gain \in 1..Die,
         LevelUp(r, choice, gain)
  PROVE  Locked'
  <1> DEFINE level == req[r].build.level + 1
  <1>1. req[r].build = build /\ req[r].hp = hp /\ level \in 1..MaxLevel
    <2>1. req[r].build = build /\ req[r].hp = hp
      BY Instance DEF LevelUp
    <2>2. level <= cap
      BY DEF LevelUp
    <2> QED
      BY <2>1, <2>2, Columns, BuildFields, NumberAssumption DEF Locked
  <1>2. build' = [build EXCEPT !.level = level] /\ hp' = FullHp(hp.max + gain)
    BY <1>1 DEF LevelUp
  <1>3. log' = [l \in AsiLevels |-> IF l = level THEN choice ELSE log[l]]
    BY DEF LevelUp
  <1>4. grants' \in Sourced
    BY Columns, SyncType, GrantedType DEF LevelUp, Locked
  <1> HIDE DEF level
  <1>5. build' \in Build
    BY <1>1, <1>2, Columns DEF Build, Locked
  <1>6. hp' \in Hp /\ hp'.current <= hp'.max
    <2>1. hp.max + gain \in Nat
      BY Columns, HpFields, NumberAssumption DEF Locked
    <2> QED
      BY <1>2, <2>1, FullHpType
  <1>7. log' \in [AsiLevels -> Choices \cup {Null}]
    BY <1>3, Columns DEF Locked
  <1> QED
    BY <1>4, <1>5, <1>6, <1>7, Columns, OwnerWrites DEF LevelUp, Locked

LEMMA RebuildLocked ==
  ASSUME Locked, NEW r \in Requests, NEW s \in Subclasses \cup {Null}, NEW g \in Backgrounds \cup {Null},
         NEW choice \in [AsiLevels -> Choices \cup {Null}], NEW max \in 1..(Die * MaxLevel),
         Rebuild(r, s, g, choice, max)
  PROVE  Locked'
  <1>1. build' \in Build
    BY Columns DEF Rebuild, Locked, Build
  <1>2. hp' \in Hp /\ hp'.current <= hp'.max
    BY FullHpType DEF Rebuild
  <1>3. grants' \in Sourced
    <2> DEFINE kept == WithoutAsiFeats(grants)
               given == [f \in Grantable |-> IF \E l \in AsiLevels : choice[l] = f THEN "ASI" ELSE kept[f]]
    <2>1. kept \in Sourced
      BY Columns DEF WithoutAsiFeats, Locked, Sourced
    <2> HIDE DEF kept
    <2>2. given \in Sourced
      BY <2>1 DEF Sourced
    <2> USE DEF kept
    <2>3. \E b : grants' = Sync(given, b)
      BY DEF Rebuild
    <2> HIDE DEF kept, given
    <2> QED
      BY <2>2, <2>3, SyncType
  <1>4. log' = choice /\ freed' = {}
    BY DEF Rebuild
  <1> QED
    BY <1>1, <1>2, <1>3, <1>4, Columns, OwnerWrites DEF Rebuild, Locked

\* The three ways the owner changes hit points.
LEMMA WriteHpLocked ==
  ASSUME Locked, NEW r \in Requests, NEW new \in Hp, new.current <= new.max,
         req[r].step = "locked" => new.max = req[r].hp.max, WriteHp(r, new)
  PROVE  Locked'
  <1>1. new.max = hp.max
    BY Instance DEF WriteHp
  <1>2. hp' = new
    BY <1>1, HpFields DEF WriteHp
  <1> QED
    BY <1>2, Columns, OwnerWrites DEF WriteHp, Locked

LEMMA HitPointsLocked ==
  ASSUME Locked, NEW r \in Requests,
         \/ \E delta \in Deltas : ApplyDelta(r, delta)
         \/ \E current, temp \in HpInputs : SetHp(r, current, temp)
         \/ Rest(r)
  PROVE  Locked'
  <1>1. req[r].step = "locked"
    BY DEF ApplyDelta, SetHp, Rest, WriteHp
  <1>2. /\ req[r].hp = hp /\ hp \in Hp /\ hp.current <= hp.max
        /\ hp.max \in Nat /\ hp.current \in Nat /\ hp.temp \in Nat
    BY <1>1, Instance, Columns, HpFields DEF Locked
  <1>3. ASSUME NEW delta \in Deltas, ApplyDelta(r, delta) PROVE Locked'
    <2>1. delta \in Int
      BY NumberAssumption
    <2> QED
      BY <1>2, <1>3, <2>1, DamagedType, WriteHpLocked DEF ApplyDelta
  <1>4. ASSUME NEW current \in HpInputs, NEW temp \in HpInputs, SetHp(r, current, temp) PROVE Locked'
    <2> DEFINE new == [hp EXCEPT !.current = Least(current, hp.max), !.temp = Most(hp.temp, temp)]
    <2>1. current \in Nat /\ temp \in Nat
      BY NumberAssumption
    <2>2. Least(current, hp.max) \in Nat /\ Least(current, hp.max) <= hp.max /\ Most(hp.temp, temp) \in Nat
      BY <1>2, <2>1 DEF Least, Most
    <2>3. WriteHp(r, new)
      BY <1>2, <1>4 DEF SetHp
    <2>4. new = [hp EXCEPT !.current = Least(current, hp.max), !.temp = Most(hp.temp, temp)]
      OBVIOUS
    <2> HIDE DEF new
    <2>5. new \in Hp /\ new.max = hp.max /\ new.current = Least(current, hp.max)
      BY <1>2, <2>2, <2>4 DEF Hp
    <2> QED
      BY <1>2, <2>2, <2>3, <2>5, WriteHpLocked
  <1>5. CASE Rest(r)
    BY <1>2, <1>5, FullHpType, WriteHpLocked DEF Rest
  <1> QED
    BY <1>3, <1>4, <1>5

-----------------------------------------------------------------------------
(* The GM's writes.                                                        *)

LEMMA SetMaxLevelLocked ==
  ASSUME Locked, NEW r \in Requests, NEW n \in 1..MaxLevel, SetMaxLevel(r, n)
  PROVE  Locked'
  BY Columns, OwnerWrites DEF SetMaxLevel, Locked

\* The GM's maximum waits for the lock: nobody's instance is current then.
LEMMA SetMaxHpLocked ==
  ASSUME Locked, NEW n \in GmHp, SetMaxHp(n)
  PROVE  Locked'
  <1>1. n \in Nat
    BY NumberAssumption
  <1>2. hp' \in Hp /\ hp'.current <= hp'.max
    <2>1. hp' = [hp EXCEPT !.max = n, !.current = Least(hp.current, n)]
      BY DEF SetMaxHp
    <2>2. hp \in Hp /\ hp = [max |-> hp.max, current |-> hp.current, temp |-> hp.temp]
      BY Columns, HpFields DEF Locked
    <2>3. hp' = [max |-> n, current |-> Least(hp.current, n), temp |-> hp.temp]
      BY <2>1, <2>2
    <2>4. Least(hp.current, n) \in Nat /\ Least(hp.current, n) <= n
      BY <1>1, <2>2, HpFields DEF Least
    <2> QED
      BY <1>1, <2>2, <2>3, <2>4, HpFields DEF Hp
  <1>3. \A q \in Requests : req[q].step \notin {"held", "locked"}
    BY NullAssumption DEF SetMaxHp, Locked, LockOwner
  <1>4. Requested'
    BY <1>3, Columns DEF SetMaxHp, Requested, Locked, LockOwner, InstanceCurrent, TypeOK, Row
  <1> QED
    BY <1>2, <1>4, Columns, LockedFrom DEF SetMaxHp, Locked

LEMMA GrantsLocked ==
  ASSUME Locked, NEW r \in Requests,
         \/ \E t \in Feats : AddFeat(r, t) \/ RemoveFeat(r, t)
         \/ \E f \in Features : AddFeature(r, f)
         \/ \E f \in Grantable : RemoveFeature(r, f)
  PROVE  Locked'
  <1>1. ASSUME NEW t \in Feats, AddFeat(r, t) PROVE Locked'
    <2>1. grants' \in Sourced
      BY <1>1, Columns, SyncType, GrantedType DEF AddFeat, Locked
    <2> QED
      BY <1>1, <2>1, Columns, OwnerWrites DEF AddFeat, Locked
  <1>2. ASSUME NEW t \in Feats, RemoveFeat(r, t) PROVE Locked'
    <2>1. grants' \in Sourced
      BY <1>2, Columns, SyncType, GrantedType DEF RemoveFeat, Locked
    <2>2. log' \in [AsiLevels -> Choices \cup {Null}] /\ freed' \subseteq AsiLevels
      BY <1>2, Columns DEF RemoveFeat, Locked
    <2> QED
      BY <1>2, <2>1, <2>2, Columns, OwnerWrites DEF RemoveFeat, Locked
  <1>3. ASSUME NEW f \in Features, AddFeature(r, f) PROVE Locked'
    BY <1>3, Columns, GrantedType, OwnerWrites DEF AddFeature, Locked
  <1>4. ASSUME NEW f \in Grantable, RemoveFeature(r, f) PROVE Locked'
    BY <1>4, Columns, GrantedType, OwnerWrites DEF RemoveFeature, Locked
  <1> QED
    BY <1>1, <1>2, <1>3, <1>4

LEMMA NextLocked == Locked /\ [Next]_vars => Locked'
  <1> SUFFICES ASSUME Locked, [Next]_vars PROVE Locked'
    OBVIOUS
  <1>1. CASE UNCHANGED vars
    BY <1>1 DEF vars, Locked, TypeOK, LockOwner, InstanceCurrent
  <1>2. CASE \E n \in GmHp : SetMaxHp(n)
    BY <1>2, SetMaxHpLocked
  <1>3. ASSUME NEW r \in Requests, Load(r) \/ LockCharacter(r) \/ LockOnly(r) \/ Abort(r) PROVE Locked'
    BY <1>3, LoadLocked, LockCharacterLocked, LockOnlyLocked, AbortLocked
  <1>4. ASSUME NEW r \in Requests, NEW s \in Subclasses \cup {Null}, SetSubclass(r, s) PROVE Locked'
    BY <1>4, SetSubclassLocked
  <1>5. ASSUME NEW r \in Requests, NEW g \in Backgrounds, SetBackground(r, g) PROVE Locked'
    BY <1>5, SetBackgroundLocked
  <1>6. ASSUME NEW r \in Requests, NEW choice \in Choices \cup {Null}, NEW gain \in 1..Die,
               LevelUp(r, choice, gain) PROVE Locked'
    BY <1>6, LevelUpLocked
  <1>7. ASSUME NEW r \in Requests, NEW s \in Subclasses \cup {Null}, NEW g \in Backgrounds \cup {Null},
               NEW choice \in [AsiLevels -> Choices \cup {Null}], NEW max \in 1..(Die * MaxLevel),
               Rebuild(r, s, g, choice, max) PROVE Locked'
    BY <1>7, RebuildLocked
  <1>8. ASSUME NEW r \in Requests,
               \/ \E delta \in Deltas : ApplyDelta(r, delta)
               \/ \E current, temp \in HpInputs : SetHp(r, current, temp)
               \/ Rest(r)
        PROVE Locked'
    BY <1>8, HitPointsLocked
  <1>9. ASSUME NEW r \in Requests, NEW n \in 1..MaxLevel, SetMaxLevel(r, n) PROVE Locked'
    BY <1>9, SetMaxLevelLocked
  <1>10. ASSUME NEW r \in Requests,
                \/ \E t \in Feats : AddFeat(r, t) \/ RemoveFeat(r, t)
                \/ \E f \in Features : AddFeature(r, f)
                \/ \E f \in Grantable : RemoveFeature(r, f)
         PROVE Locked'
    BY <1>10, GrantsLocked
  <1> QED
    BY <1>1, <1>2, <1>3, <1>4, <1>5, <1>6, <1>7, <1>8, <1>9, <1>10
       DEF Next, ChangeSources, RebuildCharacter, LevelUpCharacter, HitPoints

\* Every variable keeps its type; current hit points never pass the maximum.
THEOREM TypeCorrect == Spec => []TypeOK
  <1>1. Locked => TypeOK
    BY DEF Locked
  <1> QED
    BY <1>1, InitLocked, NextLocked, PTL DEF Spec

\* A request that re-read the character under its lock works from the row as
\* it stands until it ends: no update of the row is lost under the lock.
THEOREM NoLostUpdate == Spec => []InstanceCurrent
  <1>1. Locked => InstanceCurrent
    BY DEF Locked
  <1> QED
    BY <1>1, InitLocked, NextLocked, PTL DEF Spec

-----------------------------------------------------------------------------
(* The ASI levels.                                                         *)

Resolved == AsiResolved /\ AsiFeatsLogged

LEMMA InitResolved == Init => Resolved
  <1> SUFFICES ASSUME Init PROVE Resolved
    OBVIOUS
  <1>1. AsiResolved
    <2>1. build.level = 1
      BY DEF Init
    <2>2. \A l \in AsiLevels : log[l] = Null /\ l \notin freed
      BY DEF Init
    <2>3. \A l \in AsiLevels : ~(l <= 1)
      BY NumberAssumption
    <2> QED
      BY <2>1, <2>2, <2>3 DEF AsiResolved
  <1>2. AsiFeatsLogged
    <2>1. [f \in Grantable |-> ""] \in Sourced
      BY DEF Sourced
    <2>2. \A t \in Feats : [f \in Grantable |-> ""][t] # "ASI"
      BY DEF Grantable
    <2>3. grants = Sync([f \in Grantable |-> ""], build)
      BY DEF Init
    <2> QED
      BY <2>1, <2>2, <2>3, SyncKeepsFeats DEF AsiFeatsLogged
  <1> QED
    BY <1>1, <1>2 DEF Resolved

\* A step that takes no level and touches neither log nor revocations.
LEMMA SameLevels ==
  ASSUME AsiResolved, build'.level = build.level, UNCHANGED <<log, freed>>
  PROVE  AsiResolved'
  BY DEF AsiResolved

\* Reconciling what a write that gives no ASI feat leaves.
LEMMA SameFeats ==
  ASSUME AsiFeatsLogged, UNCHANGED log, \A t \in Feats : grants'[t] = "ASI" => grants[t] = "ASI"
  PROVE  AsiFeatsLogged'
  BY DEF AsiFeatsLogged

LEMMA LevelUpResolved ==
  ASSUME Locked, Resolved, NEW r \in Requests, NEW choice \in Choices \cup {Null}, NEW gain \in 1..Die,
         LevelUp(r, choice, gain)
  PROVE  Resolved'
  <1> DEFINE level == build.level + 1
  <1>1. build.level \in Nat /\ build'.level = level
    <2>1. req[r].build = build
      BY Instance DEF LevelUp
    <2> QED
      BY <2>1, Columns, BuildFields DEF LevelUp, Locked, Build
  <1>2. /\ log' = [l \in AsiLevels |-> IF l = level THEN choice ELSE log[l]]
        /\ (level \in AsiLevels) <=> (choice # Null)
        /\ choice # Null => log[level] = Null
        /\ freed' = freed
    BY Instance DEF LevelUp
  <1>3. \E b : grants' = Sync(Granted(grants, choice, "ASI"), b)
    BY DEF LevelUp
  <1> HIDE DEF level
  <1>4. AsiResolved'
    <2> SUFFICES ASSUME NEW l \in AsiLevels
                 PROVE (log'[l] # Null \/ l \in freed') <=> l <= build'.level
      BY DEF AsiResolved
    <2>1. l \in Nat
      BY NumberAssumption
    <2>2. (log[l] # Null \/ l \in freed) <=> l <= build.level
      BY DEF Resolved, AsiResolved
    <2>3. CASE l = level
      <3>1. log'[l] # Null
        BY <1>2, <2>3
      <3>2. l <= build'.level
        BY <1>1, <2>1, <2>3
      <3> QED
        BY <3>1, <3>2
    <2>4. CASE l # level
      BY <1>1, <1>2, <2>1, <2>2, <2>4 DEF level
    <2> QED
      BY <2>3, <2>4
  <1>5. AsiFeatsLogged'
    <2> SUFFICES ASSUME NEW t \in Feats, grants'[t] = "ASI" PROVE \E l \in AsiLevels : log'[l] = t
      BY DEF AsiFeatsLogged
    <2>1. Granted(grants, choice, "ASI")[t] = "ASI"
      BY <1>3, SyncKeepsFeats, GrantedType, Columns DEF Locked
    <2>2. CASE t = choice
      <3>1. level \in AsiLevels
        BY <1>2, <2>2, NullAssumption
      <3> QED
        BY <1>2, <2>2, <3>1
    <2>3. CASE t # choice
      <3>1. grants[t] = "ASI"
        BY <2>1, <2>3 DEF Granted, Grantable
      <3>2. PICK l \in AsiLevels : log[l] = t
        BY <3>1 DEF Resolved, AsiFeatsLogged
      <3>3. l # level
        BY <1>2, <3>2, NullAssumption
      <3> QED
        BY <1>2, <3>2, <3>3
    <2> QED
      BY <2>2, <2>3
  <1> QED
    BY <1>4, <1>5 DEF Resolved

LEMMA RebuildResolved ==
  ASSUME Locked, NEW r \in Requests, NEW s \in Subclasses \cup {Null}, NEW g \in Backgrounds \cup {Null},
         NEW choice \in [AsiLevels -> Choices \cup {Null}], NEW max \in 1..(Die * MaxLevel),
         Rebuild(r, s, g, choice, max)
  PROVE  Resolved'
  <1>1. req[r].build = build /\ build'.level = build.level /\ log' = choice /\ freed' = {}
    BY Instance, Columns DEF Rebuild, Locked, Build
  <1>2. AsiResolved'
    BY <1>1 DEF AsiResolved, Rebuild, Required
  <1>3. AsiFeatsLogged'
    <2> DEFINE kept == WithoutAsiFeats(grants)
               given == [f \in Grantable |-> IF \E l \in AsiLevels : choice[l] = f THEN "ASI" ELSE kept[f]]
    <2>1. \A t \in Feats : kept[t] # "ASI"
      BY DEF WithoutAsiFeats, Grantable
    <2>2. kept \in Sourced
      BY Columns DEF WithoutAsiFeats, Locked, Sourced
    <2>3. \E b : grants' = Sync(given, b)
      BY DEF Rebuild
    <2> HIDE DEF kept
    <2>4. given \in Sourced
      BY <2>2 DEF Sourced
    <2>5. \A t \in Feats : given[t] = "ASI" => \E l \in AsiLevels : choice[l] = t
      BY <2>1 DEF Grantable
    <2> HIDE DEF given
    <2> QED
      BY <1>1, <2>3, <2>4, <2>5, SyncKeepsFeats DEF AsiFeatsLogged
  <1> QED
    BY <1>2, <1>3 DEF Resolved

\* Revoking a feat takes its rows of the log with it, and frees their levels.
LEMMA RemoveFeatResolved ==
  ASSUME Locked, Resolved, NEW r \in Requests, NEW t \in Feats, RemoveFeat(r, t)
  PROVE  Resolved'
  <1> DEFINE levels == {l \in AsiLevels : log[l] = t}
  <1>1. /\ log' = [l \in AsiLevels |-> IF l \in levels THEN Null ELSE log[l]]
        /\ freed' = freed \cup levels /\ build' = build
        /\ \E b : grants' = Sync(Granted(grants, t, ""), b)
    BY DEF RemoveFeat
  <1>2. AsiResolved'
    <2> SUFFICES ASSUME NEW l \in AsiLevels
                 PROVE (log'[l] # Null \/ l \in freed') <=> l <= build'.level
      BY DEF AsiResolved
    <2>1. (log[l] # Null \/ l \in freed) <=> l <= build.level
      BY DEF Resolved, AsiResolved
    <2>2. l \in levels => log[l] # Null
      BY NullAssumption
    <2>3. /\ log'[l] = IF l \in levels THEN Null ELSE log[l]
          /\ l \in freed' <=> (l \in freed \/ l \in levels)
      BY <1>1
    <2> HIDE DEF levels
    <2>4. build' = build
      BY <1>1
    <2>5. CASE l \in levels
      BY <2>1, <2>2, <2>3, <2>4, <2>5
    <2>6. CASE l \notin levels
      BY <2>1, <2>3, <2>4, <2>6
    <2> QED
      BY <2>5, <2>6
  <1>3. AsiFeatsLogged'
    <2> SUFFICES ASSUME NEW u \in Feats, grants'[u] = "ASI" PROVE \E l \in AsiLevels : log'[l] = u
      BY DEF AsiFeatsLogged
    <2>1. Granted(grants, t, "")[u] = "ASI"
      BY <1>1, SyncKeepsFeats, GrantedType, Columns DEF Locked
    <2>2. u # t /\ grants[u] = "ASI"
      BY <2>1 DEF Granted, Grantable
    <2>3. PICK l \in AsiLevels : log[l] = u
      BY <2>2 DEF Resolved, AsiFeatsLogged
    <2> QED
      BY <1>1, <2>2, <2>3
  <1> QED
    BY <1>2, <1>3 DEF Resolved

LEMMA OthersResolved ==
  ASSUME Locked, Resolved, NEW r \in Requests,
         \/ Load(r) \/ LockCharacter(r) \/ LockOnly(r) \/ Abort(r)
         \/ \E s \in Subclasses \cup {Null} : SetSubclass(r, s)
         \/ \E g \in Backgrounds : SetBackground(r, g)
         \/ \E delta \in Deltas : ApplyDelta(r, delta)
         \/ \E current, temp \in HpInputs : SetHp(r, current, temp)
         \/ Rest(r)
         \/ \E n \in 1..MaxLevel : SetMaxLevel(r, n)
         \/ \E t \in Feats : AddFeat(r, t)
         \/ \E f \in Features : AddFeature(r, f)
         \/ \E f \in Grantable : RemoveFeature(r, f)
  PROVE  Resolved'
  <1>1. build'.level = build.level /\ UNCHANGED <<log, freed>>
    <2>1. build \in Build
      BY Columns DEF Locked
    <2> QED
      BY <2>1 DEF Load, LockCharacter, LockOnly, Abort, SetSubclass, SetBackground, ApplyDelta, SetHp, Rest,
                  WriteHp, SetMaxLevel, AddFeat, AddFeature, RemoveFeature, Build
  <1>2. \A t \in Feats : grants'[t] = "ASI" => grants[t] = "ASI"
    <2> SUFFICES ASSUME NEW t \in Feats, grants'[t] = "ASI" PROVE grants[t] = "ASI"
      OBVIOUS
    <2>1. grants \in Sourced
      BY Columns DEF Locked
    <2>2. CASE UNCHANGED grants
      BY <2>2
    <2>3. CASE \E b : grants' = Sync(grants, b)
      BY <2>1, <2>3, SyncKeepsFeats
    <2>4. ASSUME NEW u \in Feats, AddFeat(r, u) PROVE grants[t] = "ASI"
      <3>1. Granted(grants, u, "GM")[t] = "ASI"
        BY <2>1, <2>4, SyncKeepsFeats, GrantedType DEF AddFeat
      <3> QED
        BY <3>1 DEF Granted, Grantable
    <2>5. ASSUME NEW f \in Grantable, NEW source \in {"", "GM"}, grants' = Granted(grants, f, source)
          PROVE grants[t] = "ASI"
      BY <2>5 DEF Granted, Grantable
    <2>6. \/ UNCHANGED grants \/ \E b : grants' = Sync(grants, b) \/ \E u \in Feats : AddFeat(r, u)
          \/ \E f \in Grantable, source \in {"", "GM"} : grants' = Granted(grants, f, source)
      BY DEF Load, LockCharacter, LockOnly, Abort, SetSubclass, SetBackground, ApplyDelta, SetHp, Rest,
             WriteHp, SetMaxLevel, AddFeature, RemoveFeature, Grantable
    <2> QED
      BY <2>2, <2>3, <2>4, <2>5, <2>6
  <1> QED
    BY <1>1, <1>2, SameLevels, SameFeats DEF Resolved

LEMMA NextResolved == Locked /\ Resolved /\ [Next]_vars => Resolved'
  <1> SUFFICES ASSUME Locked, Resolved, [Next]_vars PROVE Resolved'
    OBVIOUS
  <1>1. CASE UNCHANGED vars
    BY <1>1 DEF vars, Resolved, AsiResolved, AsiFeatsLogged
  <1>2. CASE \E n \in GmHp : SetMaxHp(n)
    BY <1>2 DEF SetMaxHp, Resolved, AsiResolved, AsiFeatsLogged
  <1>3. ASSUME NEW r \in Requests, NEW choice \in Choices \cup {Null}, NEW gain \in 1..Die,
               LevelUp(r, choice, gain) PROVE Resolved'
    BY <1>3, LevelUpResolved
  <1>4. ASSUME NEW r \in Requests, NEW s \in Subclasses \cup {Null}, NEW g \in Backgrounds \cup {Null},
               NEW choice \in [AsiLevels -> Choices \cup {Null}], NEW max \in 1..(Die * MaxLevel),
               Rebuild(r, s, g, choice, max) PROVE Resolved'
    BY <1>4, RebuildResolved
  <1>5. ASSUME NEW r \in Requests, NEW t \in Feats, RemoveFeat(r, t) PROVE Resolved'
    BY <1>5, RemoveFeatResolved
  <1> QED
    BY <1>1, <1>2, <1>3, <1>4, <1>5, OthersResolved
       DEF Next, ChangeSources, RebuildCharacter, LevelUpCharacter, HitPoints

\* progression: a character has resolved each ASI level up to its level and none
\* above, save the levels whose feat a GM has taken away.
THEOREM LevelsResolved == Spec => []AsiResolved
  <1>1. Resolved => AsiResolved
    BY DEF Resolved
  <1> QED
    BY <1>1, InitLocked, NextLocked, InitResolved, NextResolved, PTL DEF Spec

\* apply_feat: no feat of an ASI level without its row in the ASI log.
THEOREM FeatsLogged == Spec => []AsiFeatsLogged
  <1>1. Resolved => AsiFeatsLogged
    BY DEF Resolved
  <1> QED
    BY <1>1, InitLocked, NextLocked, InitResolved, NextResolved, PTL DEF Spec

-----------------------------------------------------------------------------
(* What a step may do.                                                     *)

\* Only the level-up changes the level; it works from the current hit points.
LEMMA LevelStep ==
  ASSUME Locked, [Next]_vars, build'.level # build.level
  PROVE  \E r \in Requests, choice \in Choices \cup {Null}, gain \in 1..Die : LevelUp(r, choice, gain)
  <1>1. build \in Build
    BY Columns DEF Locked
  <1>2. ASSUME NEW r \in Requests, NEW s \in Subclasses \cup {Null}, NEW g \in Backgrounds \cup {Null},
               NEW choice \in [AsiLevels -> Choices \cup {Null}], NEW max \in 1..(Die * MaxLevel),
               Rebuild(r, s, g, choice, max) PROVE FALSE
    BY <1>1, <1>2 DEF Rebuild, Build
  <1>3. ASSUME NEW r \in Requests, NEW s \in Subclasses \cup {Null}, SetSubclass(r, s) PROVE FALSE
    BY <1>1, <1>3 DEF SetSubclass, Build
  <1>4. ASSUME NEW r \in Requests, NEW g \in Backgrounds, SetBackground(r, g) PROVE FALSE
    BY <1>1, <1>4 DEF SetBackground, Build
  <1>5. build' # build
    OBVIOUS
  <1> QED
    BY <1>2, <1>3, <1>4, <1>5
       DEF Next, ChangeSources, RebuildCharacter, LevelUpCharacter, HitPoints, vars, Load, LockCharacter, LockOnly, Abort, ApplyDelta, SetHp, Rest,
       WriteHp, SetMaxLevel, SetMaxHp, AddFeat, RemoveFeat, AddFeature, RemoveFeature

\* level_up adds one level and at least one hit point, and heals fully.
THEOREM LevelsAddHitPoints == Spec => LevelAddsHp
  <1>1. ASSUME Locked, [Next]_vars, build'.level # build.level
        PROVE  build'.level = build.level + 1 /\ hp'.max > hp.max /\ hp' = FullHp(hp'.max)
    <2>1. PICK r \in Requests, choice \in Choices \cup {Null}, gain \in 1..Die : LevelUp(r, choice, gain)
      BY <1>1, LevelStep
    <2>2. req[r].build = build /\ req[r].hp = hp /\ build \in Build /\ hp \in Hp
      BY <1>1, <2>1, Instance, Columns DEF LevelUp, Locked
    <2>3. build'.level = build.level + 1 /\ hp' = FullHp(hp.max + gain)
      BY <2>1, <2>2 DEF LevelUp, Build
    <2>4. gain \in Nat /\ gain >= 1 /\ hp.max \in Nat
      BY <2>2, HpFields, NumberAssumption
    <2>5. hp'.max = hp.max + gain
      BY <2>3, <2>4, FullHpType
    <2> QED
      BY <2>3, <2>4, <2>5
  <1> QED
    BY <1>1, InitLocked, NextLocked, PTL DEF Spec, LevelAddsHp

\* The feature grants after a change of level, subclass or background are those
\* of the build stored, because the instance it is computed from is current.
THEOREM BuildReconciled == Spec => BuildChangesReconcile
  <1>1. ASSUME Locked, [Next]_vars, build' # build PROVE Reconciled'
    <2> DEFINE Follows == \E g \in Sourced : grants' = Sync(g, build')
    <2>1. grants \in Sourced /\ build \in Build
      BY <1>1, Columns DEF Locked
    <2>2. ASSUME NEW r \in Requests, NEW s \in Subclasses \cup {Null}, SetSubclass(r, s) PROVE Follows
      <3>1. req[r].build = build
        BY <1>1, <2>2, Instance DEF SetSubclass
      <3>2. grants' = Sync(grants, build')
        BY <2>2, <3>1 DEF SetSubclass
      <3> QED
        BY <2>1, <3>2
    <2>3. ASSUME NEW r \in Requests, NEW g \in Backgrounds, SetBackground(r, g) PROVE Follows
      <3>1. req[r].build = build
        BY <1>1, <2>3, Instance DEF SetBackground
      <3>2. grants' = Sync(grants, build')
        BY <2>3, <3>1 DEF SetBackground
      <3> QED
        BY <2>1, <3>2
    <2>4. ASSUME NEW r \in Requests, NEW choice \in Choices \cup {Null}, NEW gain \in 1..Die,
                 LevelUp(r, choice, gain) PROVE Follows
      <3>1. req[r].build = build
        BY <1>1, <2>4, Instance DEF LevelUp
      <3>2. grants' = Sync(Granted(grants, choice, "ASI"), build')
        BY <2>4, <3>1 DEF LevelUp
      <3>3. Granted(grants, choice, "ASI") \in Sourced
        BY <2>1, GrantedType
      <3> QED
        BY <3>2, <3>3
    <2>5. ASSUME NEW r \in Requests, NEW s \in Subclasses \cup {Null}, NEW g \in Backgrounds \cup {Null},
                 NEW choice \in [AsiLevels -> Choices \cup {Null}], NEW max \in 1..(Die * MaxLevel),
                 Rebuild(r, s, g, choice, max) PROVE Follows
      <3> DEFINE kept == WithoutAsiFeats(grants)
                 given == [f \in Grantable |->
                             IF \E l \in AsiLevels : choice[l] = f THEN "ASI" ELSE kept[f]]
                 new == [level |-> build.level, subclass |-> s, background |-> g]
      <3>1. req[r].build = build
        BY <1>1, <2>5, Instance DEF Rebuild
      <3>2. build' = [build EXCEPT !.subclass = s, !.background = g] /\ grants' = Sync(given, new)
        BY <2>5, <3>1 DEF Rebuild
      <3>3. kept \in Sourced
        BY <2>1 DEF WithoutAsiFeats, Sourced
      <3> HIDE DEF kept
      <3>4. given \in Sourced
        BY <3>3 DEF Sourced
      <3>5. build = [level |-> build.level, subclass |-> build.subclass, background |-> build.background]
        BY <2>1, BuildFields
      <3>6. build' = new
        BY <3>2, <3>5
      <3> HIDE DEF given, new
      <3> QED
        BY <3>2, <3>4, <3>6
    <2>6. Follows
      BY <1>1, <2>2, <2>3, <2>4, <2>5
         DEF Next, ChangeSources, RebuildCharacter, LevelUpCharacter, HitPoints, vars, Load, LockCharacter, LockOnly, Abort, ApplyDelta, SetHp, Rest,
             WriteHp, SetMaxLevel, SetMaxHp, AddFeat, RemoveFeat, AddFeature, RemoveFeature
    <2> QED
      BY <2>6, SyncReconciles DEF Reconciled
  <1> QED
    BY <1>1, InitLocked, NextLocked, PTL DEF Spec, BuildChangesReconcile

\* set_background: a starting kit only for a character that had no background.
THEOREM KitsWithBackground == Spec => KitWithBackground
  <1>1. ASSUME Locked, [Next]_vars, kits' # kits
        PROVE  build.background = Null /\ build'.background # Null
    <2>1. PICK r \in Requests, g \in Backgrounds : SetBackground(r, g)
      <3>1. \A r \in Requests, choice \in Choices \cup {Null}, gain \in 1..Die : ~LevelUp(r, choice, gain)
        BY <1>1 DEF LevelUp
      <3>2. \A r \in Requests, s \in Subclasses \cup {Null}, g \in Backgrounds \cup {Null},
              choice \in [AsiLevels -> Choices \cup {Null}], max \in 1..(Die * MaxLevel) :
                ~Rebuild(r, s, g, choice, max)
        BY <1>1 DEF Rebuild
      <3>3. \A r \in Requests, s \in Subclasses \cup {Null} : ~SetSubclass(r, s)
        BY <1>1 DEF SetSubclass
      <3> QED
        BY <1>1, <3>1, <3>2, <3>3
           DEF Next, ChangeSources, RebuildCharacter, LevelUpCharacter, HitPoints, vars, Load, LockCharacter, LockOnly, Abort, ApplyDelta, SetHp,
           Rest, WriteHp, SetMaxLevel, SetMaxHp, AddFeat, RemoveFeat, AddFeature, RemoveFeature
    <2>2. req[r].build = build /\ build \in Build
      BY <1>1, <2>1, Instance, Columns DEF SetBackground, Locked
    <2>3. build'.background = g
      BY <2>1, <2>2 DEF SetBackground, Build
    <2> QED
      BY <2>1, <2>2, <2>3, NullAssumption DEF SetBackground, Sources
  <1> QED
    BY <1>1, InitLocked, NextLocked, PTL DEF Spec, KitWithBackground
=============================================================================
