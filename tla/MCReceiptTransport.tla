------------------------- MODULE MCReceiptTransport -------------------------
(* Two planned checks and three contents, one of them too long. *)
EXTENDS ReceiptTransport

Sizes == [content \in Contents |-> CASE content = "empty" -> 0
                                     [] content = "line" -> 1
                                     [] OTHER -> 2]

Told == [f \in Fields |-> "expected"]

\* Well-formed, or with a malformed expected harness or invocation digest.
AnyTold == {Told} \cup {[Told EXCEPT ![f] = Malformed] :
                         f \in {"harness", "invocation"}}
=============================================================================
