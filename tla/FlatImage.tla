------------------------------ MODULE FlatImage ------------------------------
(***************************************************************************)
(* What the SCSI layer expects of fn.read and fn.write: one image of       *)
(* numbered units.  A request moves its units in order, from or to exactly *)
(* the addresses it names; it may fail at any point, and it succeeds only  *)
(* when all of it has moved.                                               *)
(***************************************************************************)
EXTENDS Naturals

CONSTANTS Units,    \* addresses of the image, and indexes of a request's units
          Hole      \* what is at an address behind the end of the image

VARIABLES image,    \* the unit at each address
          req,      \* the last request: [kind, at, len, value]
          moved,    \* how many of its units have moved
          out,      \* what a read has returned so far
          result,   \* "none", "busy", "ok" or "error"
          fault     \* a storage call has failed during the request

vars == <<image, req, moved, out, result, fault>>

Init == moved = 0 /\ result = "none"

\* Another image is mounted, or the image is unmounted
Change == result # "busy" /\ result' = "none" /\ UNCHANGED <<req, moved, out, fault>>

Begin ==
  /\ result # "busy" /\ result' \in {"busy", "ok", "error"}
  /\ result' = "ok" => req'.len = 0
  /\ result' = "error" => req'.kind = "write"
  /\ moved' = 0 /\ fault' = FALSE /\ UNCHANGED <<image, out>>

Reached(a) == a \in Units /\ image[a] # Hole

\* n more units move, which may be the last
Move(n) ==
  LET first == req.at + moved
      within(a) == first <= a /\ a < first + n
  IN /\ result = "busy" /\ moved + n <= req.len
     /\ \A a \in first..first + n - 1 : Reached(a)
     /\ moved' = moved + n
     /\ IF req.kind = "read"
        THEN /\ out' = [i \in Units |-> IF within(req.at + i) THEN image[req.at + i] ELSE out[i]]
             /\ UNCHANGED image
        ELSE /\ image' = [a \in Units |-> IF within(a) THEN req.value ELSE image[a]]
             /\ UNCHANGED out
     /\ result' \in {"busy", "ok", "error"}
     /\ result' = "ok" => moved' = req.len
     /\ result' = "error" => fault' \/ ~Reached(first + n)
     /\ UNCHANGED req

Next == Change \/ Begin \/ \E n \in 0..req.len : Move(n)

Spec == Init /\ [][Next]_vars
=============================================================================
