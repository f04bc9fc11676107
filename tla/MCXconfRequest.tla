--------------------------- MODULE MCXconfRequest ---------------------------
(* Small instances of XconfRequest: configurations that differ in what the *)
(* control flow looks at, and nothing else.                                *)
EXTENDS XconfRequest, TLC

CONSTANTS f1, f2

\* A plain configuration: parameters and a hash.
Plain(n) ==
  [id |-> n, data |-> TRUE, hashed |-> TRUE, validates |-> FALSE,
   account |-> "", partner |-> "", selector |-> "", url |-> None]

Servers == {"prod", "ci"}

\* One that sends the device to the ci server.
ToCi == [Plain(3) EXCEPT !.selector = "ci", !.url = "ci", !.partner = Unknown]

\* One for a known account and partner.
Owned == [Plain(4) EXCEPT !.account = "id", !.partner = "id"]

\* One that names no valid ID, sets the bootstrap URL and has no hash.
Odd ==
  [Plain(5) EXCEPT !.account = Unknown, !.partner = "i?d", !.selector = "prod",
                   !.validates = TRUE, !.hashed = FALSE]

\* One without parameters.
NoData == [Plain(6) EXCEPT !.data = FALSE]

AllKinds == {ToCi, Owned, Odd, NoData}

\* One that asks for the ci server and does not say where it is.
CiNowhere == [ToCi EXCEPT !.url = None]

LiveKinds == {CiNowhere, Owned}

Symmetry == Permutations(Firmwares)
=============================================================================
