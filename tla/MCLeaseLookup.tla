--------------------------- MODULE MCLeaseLookup ---------------------------
EXTENDS LeaseLookupInv

CONSTANTS web, i1, i2, m1, m2, t1, t1z, t2

Hw(t, u, m)    == [ typed |-> t, upper |-> u, text |-> m ]
B(n, i, h)     == [ name |-> n, ip |-> i, hw |-> h ]

Names == { web }
Ips   == { i1, i2 }
Macs  == { m1, m2 }

(* The first address has a byte below 16: two texts spell it.              *)
Spellings  == { t1, t1z, t2 }
AddressOf  == [ t \in Spellings |-> IF t = t2 THEN m2 ELSE m1 ]

(* Two leases of one text, in either case and with or without the type     *)
(* indicator, one of the same address with other zeros, one of another     *)
(* address, and two blocks that lack a field.                              *)
Blocks ==
  { B(web, i1, Hw(TRUE, FALSE, t1)), B(None, i2, Hw(FALSE, TRUE, t1)),
    B(web, i2, Hw(TRUE, FALSE, t1z)), B(None, i1, Hw(TRUE, FALSE, t2)),
    B(web, None, Hw(TRUE, FALSE, t1)), B(None, i2, None) }

Waits == { 0, 2 }
=============================================================================
