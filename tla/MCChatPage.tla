----------------------------- MODULE MCChatPage -----------------------------
(* Scripts and bounds for TLC.  A model says what it has to say before it calls
   tools, as the providers' models do, and asks alone.  Failures, interrupts and
   what the user does while the page is not at rest share one bound.          *)
EXTENDS ChatPage

CONSTANTS a, b

Part(type, token) == [type |-> type, text |-> <<token>>]
Opens(index, name) == [index |-> index, id |-> "new", name |-> name, args |-> <<>>]
Delta(index, token) == [index |-> index, id |-> None, name |-> None, args |-> <<token>>]
Chunk(parts, calls) == [role |-> "ai", parts |-> parts, calls |-> calls]

(* A thought and a text in two parts; a text and two parallel calls whose
   arguments come interleaved; a question.                                    *)
MCScripts ==
    {<<Chunk(<<Part("reasoning", "hm"), Part("text", "so"), Part("text", "be it")>>, <<>>)>>,
     <<Chunk(<<Part("text", "first")>>, <<Opens(0, "Todos"), Opens(1, "bash")>>),
       Chunk(<<>>, <<Delta(1, "x"), Delta(0, "y")>>)>>,
     <<Chunk(<<>>, <<[Opens(0, "Ask") EXCEPT !.args = <<"q">>]>>)>>}

ASSUME ScriptsSpeakFirst == SaysBeforeCalls

(* A fresh Redis, or a thread that waits for the answer to a question. *)
Asked == <<[role |-> "human", id |-> <<"user", 0>>, content |-> <<"hello">>],
           [role |-> "ai", id |-> 1, parts |-> <<[type |-> "text", text |-> <<"well">>]>>,
            calls |-> <<[index |-> 0, id |-> <<a, 1, 0>>, name |-> "Ask", args |-> <<"q">>]>>]>>

MCEarlier ==
    {[registry |-> <<>>, log |-> (a :> <<>> @@ b :> <<>>), pending |-> (a :> None @@ b :> None)],
     [registry |-> <<a, b>>, log |-> (a :> Asked @@ b :> <<>>), pending |-> (a :> 1 @@ b :> None)]}

MCLimit == [turns |-> 2, visits |-> 1, troubles |-> 1, messages |-> 2]
=============================================================================
