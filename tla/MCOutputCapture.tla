--------------------------- MODULE MCOutputCapture ---------------------------
(* Instance of OutputCapture: one reasoning item and the same item encrypted *)
(* again, a message, a refusal and a call as it is added and as it is done.  *)
EXTENDS OutputCapture, TLC

CONSTANTS p, s, m1, m2

Item(kind, id, call, body, enc) ==
    [kind |-> kind, id |-> id, call |-> call, body |-> body, enc |-> enc, status |-> "completed"]

reasoning   == Item("reasoning", "r", None, <<>>, "enc1")
reencrypted == Item("reasoning", "r", None, <<>>, "enc2")
message     == Item("message", "m", None, <<p>>, None)
refused     == Item("refusal", "m", None, <<p>>, None)
callAdded   == Item("call", "f", "c", <<>>, None)
callDone    == Item("call", "f", "c", <<s, p>>, None)
partial     == [message EXCEPT !.status = "incomplete"]

MCItems     == {reasoning, reencrypted, message, refused, callAdded, callDone, partial}
MCPieces    == {p, s}
MCSpaces    == {s}
MCArguments == {<<p>>}
MCModels    == {m1, m2}
MCOutputs   == {<<reencrypted, message>>, <<reasoning, callDone>>,
                <<reasoning, refused>>, <<reasoning, partial>>}

\* The two models are interchangeable.
ModelSymmetry == Permutations(MCModels)
=============================================================================
