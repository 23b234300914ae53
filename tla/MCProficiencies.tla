--------------------------- MODULE MCProficiencies ---------------------------
(* A small instance of Proficiencies for TLC: a skill that a class, a race, a
   background and a feature (plainly, or with expertise by an option) can give,
   and one proficiency of every other kind. *)
EXTENDS Proficiencies, TLC

CONSTANTS r1, r2, stealth, dex, light, bow, rogue, wizard, elf, spy, sage, feature, option

MCGrants == (rogue :> {dex, light}) @@ (wizard :> {})
MCChoiceCount == [class \in Classes |-> 1]
MCOffers == (rogue :> {{}}) @@ (wizard :> {{stealth}}) @@ (elf :> {{}, {stealth}})
                @@ (spy :> {{}, {stealth}}) @@ (sage :> {{stealth}})
MCBuilds ==
    {[class |-> rogue, race |-> Null, background |-> Null, chosen |-> {}],
     [class |-> wizard, race |-> elf, background |-> sage, chosen |-> {stealth}]}
MCEffects ==
    {[feature |-> feature, option |-> Null, key |-> stealth, expertise |-> FALSE],
     [feature |-> feature, option |-> option, key |-> stealth, expertise |-> TRUE]}

Symmetry == Permutations(Requests)
=============================================================================
