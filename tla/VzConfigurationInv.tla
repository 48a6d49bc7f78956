------------------------- MODULE VzConfigurationInv -------------------------
(***************************************************************************)
(* The inductive invariant of VzConfiguration: what of its script each     *)
(* create has behind it, and what that says of the files.                  *)
(***************************************************************************)
EXTENDS VzConfiguration

Script(c) == ValidateScript(c) \o BuildScript(c)

(* How many steps of its script p has behind it.                           *)
Done(p) == Len(Script(config)) - Len(todo[p])

(* What p has left is the end of the script.                               *)
ScriptInv ==
  \A p \in Proc :
    Busy(p) => \A i \in 1..Len(todo[p]) : todo[p][i] = Script(config)[Done(p) + i]

(* What p has looked for is there, unless it was moved.                    *)
LookedInv ==
  \A p \in Proc :
    Busy(p) /\ "moved" \notin excused[p] =>
      \A i \in 1..Done(p) :
        Script(config)[i].do = "look" => fs[Script(config)[i].at] # "none"

(* Only the path of the variable store ever holds one.                     *)
StoreInv ==
  \A f \in Path :
    fs[f] \in { "blank", "written" } => config.kind = "Efi" /\ f = config.variable_store

(* A store that p found missing is still missing when p creates it, unless *)
(* somebody else made one meanwhile.                                       *)
RaceInv ==
  \A p \in Proc :
    Runs(p, "provide") /\ ~ found[p] /\ excused[p] \cap { "moved", "raced" } = { }
      => fs[This(p).at] = "none"

(* Only one first boot is at the temporary file, which is what that boot   *)
(* has made of it, and what is at the path is whole.                       *)
Alone ==
  /\ \A p, q \in Proc : Drafting(p) /\ Drafting(q) => p = q
  /\ \A p \in Proc :
       /\ Runs(p, "write") /\ ~ found[p] => file[p] = "tmp" /\ tmp = "empty"
       /\ Runs(p, "rename") /\ ~ found[p] => tmp = "some"
  /\ config.machine_identifier_path # None
       => fs[config.machine_identifier_path] \in { "none", "some" }

(* So it is as long as no two first boots have met.                        *)
AloneInv == ~ met => Alone

(* The temporary file of a first boot is there until it is renamed, unless *)
(* another has renamed it; an identifier that was found is still there.    *)
DraftInv ==
  \A p \in Proc :
    /\ Drafting(p) /\ "raced" \notin excused[p] => tmp # "none"
    /\ Runs(p, "open") /\ found[p] /\ "moved" \notin excused[p]
         => fs[config.machine_identifier_path] # "none"

(* The inductive invariant: it implies ValidateForesees, and of every step *)
(* LeftoversAreReusable and StoreIsNeverReset (validate, build_vz_config). *)
CreateInv ==
  /\ TypeOK /\ ScriptInv /\ LookedInv /\ StoreInv /\ RaceInv /\ AloneInv /\ DraftInv
  /\ ValidateForesees
=============================================================================
