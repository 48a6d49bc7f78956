---------------------------- MODULE LeaseLookup ----------------------------
(***************************************************************************)
(* Finding the address of a VM in the lease file of the host's DHCP        *)
(* server: parse_leases and find_lease_by_mac of src/src/dhcp.rs, and      *)
(* wait_for_ip and info of src/src/vm.rs, which read the file again and    *)
(* again while the server (external) grants, drops and rewrites.           *)
(*                                                                         *)
(* A rewrite empties the file and fills it from the front, line by line;   *)
(* a reader that comes in between sees the lines so far, the last of them  *)
(* perhaps cut off, in one read.                                           *)
(***************************************************************************)
EXTENDS Naturals, SequencesExt

CONSTANTS
  Name,       \* host names
  Ip,         \* addresses
  Mac,        \* hardware addresses
  Spelling,   \* lower-case texts of them: with a zero before a digit or not
  MacOf,      \* the address that a text spells
  None,
  Block,      \* the blocks the server writes
  MaxBlocks,  \* bound on the blocks of the file
  Timeouts    \* timeouts that wait_for_ip is called with, in seconds

VARIABLES
  blocks,   \* what the server means the file to hold
  filled,   \* how many of its lines the file holds
  mac,      \* the configured mac_address, as it is spelled, or None
  pc,       \* where the caller of wait_for_ip is
  left,     \* seconds until its deadline
  nap,      \* seconds it has yet to sleep
  result,   \* what wait_for_ip last returned
  newer     \* the file has changed since the last sleep and the last look,
            \* or that look failed

callVars == << mac, pc, left, nap, result >>
vars == << blocks, filled, callVars, newer >>

(* A hardware address as text: with the type indicator "1," or not, in     *)
(* upper or lower case.                                                    *)
HwText == [ typed : BOOLEAN, upper : BOOLEAN, text : Spelling ]

(* Every block has these three fields; one that it lacks is None.          *)
ASSUME LeaseAssumption ==
  /\ None \notin Name \cup Ip \cup HwText
  /\ Block \subseteq [ name : Name \cup { None }, ip : Ip \cup { None },
                        hw : HwText \cup { None } ]
  /\ MacOf \in [Spelling -> Mac]
  /\ MaxBlocks \in Nat
  /\ Timeouts \subseteq Nat

(* What wait_for_ip returns other than an address.                         *)
NoAddress == { "none", "InvalidConfig", "OperationFailed" }

ASSUME ResultAssumption == Ip \cap NoAddress = { }

-----------------------------------------------------------------------------
(* The file.                                                               *)

Line(k, v) == [ key |-> k, val |-> v ]

(* The lines of a block: `identifier` and `lease` are read as any other    *)
(* line is, and one stands for both.                                       *)
Given(k, v) == IF v = None THEN << >> ELSE << Line(k, v) >>

Text(b) ==
  << Line("{", None) >>
    \o Given("name", b.name) \o Given("ip", b.ip) \o Given("hw", b.hw)
    \o << Line("other", None), Line("}", None) >>

TextOf(bs) == FlattenSeq([ i \in DOMAIN bs |-> Text(bs[i]) ])

TypeOK ==
  /\ blocks \in Seq(Block) /\ Len(blocks) <= MaxBlocks
  /\ filled \in 0..Len(TextOf(blocks))
  /\ mac \in { None } \cup { h \in HwText : ~ h.typed }
  /\ pc \in { "idle", "look", "check", "sleep" }
  /\ left \in Nat /\ nap \in 0..1
  /\ result \in NoAddress \cup Ip
  /\ newer \in BOOLEAN

(* What may be left of a line that is cut off: no key, or the key and any  *)
(* value, for what is left of a value may be another one.                  *)
Cut(l) ==
  { Line("other", None) }
    \cup CASE l.key = "name" -> { Line("name", n) : n \in Name }
           [] l.key = "ip"   -> { Line("ip", i) : i \in Ip }
           [] l.key = "hw"   -> { Line("hw", h) : h \in HwText }
           [] OTHER          -> { }

(* What read_to_string may return, other than an error.                    *)
Contents ==
  LET all  == TextOf(blocks)
      seen == SubSeq(all, 1, filled)
  IN  { seen } \cup { Append(seen, l) :
                        l \in IF filled < Len(all) THEN Cut(all[filled + 1]) ELSE { } }

-----------------------------------------------------------------------------
(* parse_leases and find_lease_by_mac.                                     *)

(* Strip the "1," of hw_address.                                           *)
StripType(v) == IF v \in HwText THEN [v EXCEPT !.typed = FALSE] ELSE v

Fields == [ name |-> None, ip |-> None, hw |-> None ]

(* Mutant of ParseLine: a block is pushed as soon as it has both fields.   *)
ParseLineEagerly(acc, l) ==
  LET cur == CASE l.key = "ip"   -> [acc.cur EXCEPT !.ip = l.val]
               [] l.key = "hw"   -> [acc.cur EXCEPT !.hw = StripType(l.val)]
               [] l.key = "name" -> [acc.cur EXCEPT !.name = l.val]
               [] OTHER          -> acc.cur
  IN  IF cur.ip # None /\ cur.hw # None
        THEN [ leases |-> Append(acc.leases, cur), cur |-> Fields ]
        ELSE [ acc EXCEPT !.cur = cur ]

(* One line: the fields of the block so far, and the leases before it.     *)
(* Only a closing brace ends a block, and it clears every field.           *)
ParseLine(acc, l) ==
  CASE l.key = "}" ->
         [ leases |-> IF acc.cur.ip # None /\ acc.cur.hw # None
                        THEN Append(acc.leases, acc.cur) ELSE acc.leases,
           cur    |-> Fields ]
    [] l.key = "ip"   -> [acc EXCEPT !.cur.ip = l.val]
    [] l.key = "hw"   -> [acc EXCEPT !.cur.hw = StripType(l.val)]
    [] l.key = "name" -> [acc EXCEPT !.cur.name = l.val]
    [] OTHER          -> acc

(* The fields and the leases after all lines.                              *)
parsed(text) ==
  LET after[i \in 0..Len(text)] ==
        IF i = 0 THEN [ leases |-> << >>, cur |-> Fields ]
                 ELSE ParseLine(after[i - 1], text[i])
  IN  after[Len(text)]

parse_leases(text) == parsed(text).leases

(* to_lowercase.                                                           *)
Lower(v) == IF v \in HwText THEN [v EXCEPT !.upper = FALSE] ELSE v

(* Mutant of find_lease_by_mac: the first match, not the last.             *)
find_first_lease(leases, m) ==
  LET hits == { i \in DOMAIN leases : Lower(leases[i].hw) = Lower(m) }
  IN  IF hits = { } THEN None ELSE leases[Min(hits)].ip

(* The address of the last lease that matches, None if there is none.      *)
find_lease_by_mac(leases, m) ==
  LET hits == { i \in DOMAIN leases : Lower(leases[i].hw) = Lower(m) }
  IN  IF hits = { } THEN None ELSE leases[Max(hits)].ip

(* What lookup_ip_by_mac may return when the read succeeds.                *)
lookup_ip_by_mac(m) ==
  { find_lease_by_mac(parse_leases(text), m) : text \in Contents }

-----------------------------------------------------------------------------
Init ==
  /\ blocks = << >> /\ filled = 0
  /\ mac \in { None } \cup { h \in HwText : ~ h.typed }
  /\ pc = "idle" /\ left = 0 /\ nap = 0
  /\ result = "none" /\ newer = FALSE

(* wait_for_ip: no address is configured, or the deadline is set.          *)
Begin(t) ==
  /\ pc = "idle"
  /\ IF mac = None
       THEN result' = "InvalidConfig" /\ UNCHANGED << pc, left, newer >>
       ELSE pc' = "look" /\ left' = t /\ result' = "none" /\ newer' = FALSE
  /\ UNCHANGED << blocks, filled, mac, nap >>

(* Mutant of Look: the answer is not looked at.                            *)
LookUnwrapped ==
  /\ pc = "look"
  /\ result' \in lookup_ip_by_mac(mac)
  /\ pc' = "idle" /\ newer' = FALSE
  /\ UNCHANGED << blocks, filled, mac, left, nap >>

(* The file is read and an address returned.  That it is announced too is  *)
(* AnnounceIp of VmHandle.                                                 *)
Look ==
  /\ pc = "look"
  /\ \E ip \in lookup_ip_by_mac(mac) :
       IF ip # None
         THEN result' = ip /\ pc' = "idle"
         ELSE pc' = "check" /\ UNCHANGED result
  /\ newer' = FALSE
  /\ UNCHANGED << blocks, filled, mac, left, nap >>

(* A read that fails is taken for a file without the lease.                *)
LookFails ==
  /\ pc = "look"
  /\ pc' = "check"
  /\ newer' = TRUE
  /\ UNCHANGED << blocks, filled, mac, left, nap, result >>

GiveUp ==
  /\ pc = "check"
  /\ left = 0
  /\ result' = "OperationFailed"
  /\ pc' = "idle"
  /\ UNCHANGED << blocks, filled, mac, left, nap, newer >>

Sleep ==
  /\ pc = "check"
  /\ left > 0
  /\ nap' = 1
  /\ pc' = "sleep"
  /\ UNCHANGED << blocks, filled, mac, left, result, newer >>

(* Mutant of Wake: the deadline is computed inside the loop.               *)
WakeAnew ==
  /\ pc = "sleep" /\ nap = 0 /\ pc' = "look"
  /\ left' \in Timeouts
  /\ newer' = FALSE
  /\ UNCHANGED << blocks, filled, mac, nap, result >>

(* Mutant of Wake: the deadline is looked at before the file.              *)
WakeToCheck ==
  /\ pc = "sleep" /\ nap = 0
  /\ pc' = IF left = 0 THEN "check" ELSE "look"
  /\ newer' = FALSE
  /\ UNCHANGED << blocks, filled, mac, left, nap, result >>

Wake ==
  /\ pc = "sleep"
  /\ nap = 0
  /\ pc' = "look"
  /\ newer' = FALSE
  /\ UNCHANGED << blocks, filled, mac, left, nap, result >>

(* A second passes for the caller.                                         *)
Tick ==
  /\ pc # "idle"
  /\ left > 0 \/ nap > 0
  /\ left' = IF left > 0 THEN left - 1 ELSE 0
  /\ nap' = 0
  /\ UNCHANGED << blocks, filled, mac, pc, result, newer >>

-----------------------------------------------------------------------------
(* The server grants a lease, its block last, or drops one, and begins to  *)
(* write the file anew.                                                    *)
Rewrite ==
  /\ \/ /\ Len(blocks) < MaxBlocks
        /\ \E b \in Block : blocks' = Append(blocks, b)
     \/ \E i \in DOMAIN blocks : blocks' = RemoveAt(blocks, i)
  /\ filled' = 0
  /\ newer' = TRUE
  /\ UNCHANGED callVars

Fill ==
  /\ filled < Len(TextOf(blocks))
  /\ filled' = filled + 1
  /\ newer' = TRUE
  /\ UNCHANGED << blocks, callVars >>

Step == Look \/ LookFails \/ GiveUp \/ Sleep \/ Wake

Next ==
  \/ \E t \in Timeouts : Begin(t)
  \/ Step
  \/ Tick
  \/ Rewrite
  \/ Fill

(* The caller's thread runs and time passes; the server owes nothing.      *)
Spec == Init /\ [][Next]_vars /\ WF_vars(Step) /\ WF_vars(Tick)

-----------------------------------------------------------------------------
HasLease(b) == b.ip # None /\ b.hw # None

(* How many blocks are in the file to their closing brace.                 *)
Written ==
  Max({ k \in 0..Len(blocks) : Len(TextOf(SubSeq(blocks, 1, k))) <= filled })

(* Whatever part of the file a reader sees, it gets the leases of the      *)
(* blocks that are there as a whole, in their order: no half-written block *)
(* is taken for a lease, and no field of one block reaches another         *)
(* (parse_leases pushes at a closing brace alone, and clears there).       *)
ParsedAreWritten ==
  LET whole == { i \in 1..Written : HasLease(blocks[i]) }
  IN  \A text \in Contents :
        /\ Len(parse_leases(text)) = Cardinality(whole)
        /\ \A i \in whole :
             parse_leases(text)[Cardinality({ j \in whole : j <= i })] =
               [blocks[i] EXCEPT !.hw = StripType(@)]

(* The leases under the configured text, in either case and with or        *)
(* without the type indicator.                                             *)
Mine == { i \in DOMAIN blocks : HasLease(blocks[i]) /\ blocks[i].hw.text = mac.text }

(* The leases of the address that the configured text spells.              *)
OfAddress ==
  { i \in DOMAIN blocks : HasLease(blocks[i]) /\ MacOf[blocks[i].hw.text] = MacOf[mac.text] }

(* wait_for_ip returns an address that is leased under the configured      *)
(* text, and when the file is there as a whole, the one that was granted   *)
(* last (the comment on lookup_ip_by_mac: "the most recent lease matching  *)
(* the given MAC (case-insensitive, ignores `1,` prefix)").                *)
AnswerIsCurrent ==
  [][result' \in Ip /\ result' # result =>
       \E i \in Mine : /\ blocks[i].ip = result'
                       /\ Written = Len(blocks) => i = Max(Mine)]_vars

(* wait_for_ip gives up no earlier than it was told to, and never on a     *)
(* lease under the configured text that came while it slept: one that it   *)
(* misses came after its last look, or could not be read then (the         *)
(* deadline is compared after the lookup, which follows the sleep).        *)
NoLeaseMissed ==
  [][result' = "OperationFailed" /\ result # result' =>
       /\ left = 0
       /\ Written = Len(blocks) /\ Mine # { } => newer]_vars

(* ... nor on a lease of the configured address, written as the server     *)
(* writes it (the doc of wait_for_ip: it polls "until the VM's MAC address *)
(* appears with an assigned IP").                                          *)
AddressSuffices ==
  [][result' = "OperationFailed" /\ result # result' =>
       (Written = Len(blocks) /\ OfAddress # { } => newer)]_vars

(* wait_for_ip returns, whatever the server does to the file.              *)
WaitReturns == pc # "idle" ~> pc = "idle"
=============================================================================
