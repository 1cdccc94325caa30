----------------------------- MODULE Dictionary -----------------------------
(***************************************************************************)
(* What a concurrent index of key-value pairs promises.  An Insert or a    *)
(* Delete that answers TRUE changes the content in one step during its     *)
(* call; every other call gives an answer that was right at some moment    *)
(* between its beginning and its end.                                      *)
(***************************************************************************)
CONSTANTS Threads, Calls, None

VARIABLES
    content, \* the set of pairs [key, val]
    call     \* the call of each thread, with the answers that were right so far

vars == <<content, call>>

NoCall == [op |-> None, kv |-> None, answers |-> {}, res |-> None]

Answers(ok, values) == [ok |-> ok, values |-> values]
Yes == Answers(TRUE, {})
No == Answers(FALSE, {})
Found(values) == Answers(TRUE, values)

\* The answer of a call that changes nothing, in a set; empty when op would
\* change the content c.
RightAnswers(op, kv, c) ==
    CASE op = "GetValue" -> {Found({x.val : x \in {y \in c : y.key = kv.key}})}
      [] op = "Insert"   -> IF kv \in c THEN {No} ELSE {}
      [] op = "Delete"   -> IF kv \in c THEN {} ELSE {No}

Init ==
    /\ content = {}
    /\ call = [t \in Threads |-> NoCall]

Begin(t, op, kv) ==
    /\ call[t] = NoCall
    /\ call' = [call EXCEPT ![t] = [op |-> op, kv |-> kv, res |-> None,
                                    answers |-> RightAnswers(op, kv, content)]]
    /\ UNCHANGED content

\* The pair of t goes in or out; the calls under way see the new content.
Change(t) ==
    /\ call[t].res = None
    /\ \/ /\ call[t].op = "Insert" /\ call[t].kv \notin content
          /\ content' = content \cup {call[t].kv}
       \/ /\ call[t].op = "Delete" /\ call[t].kv \in content
          /\ content' = content \ {call[t].kv}
    /\ call' = [u \in Threads |->
                   IF u = t THEN [call[t] EXCEPT !.res = Yes]
                   ELSE IF call[u].op = None THEN call[u]
                   ELSE [call[u] EXCEPT !.answers =
                            @ \cup RightAnswers(call[u].op, call[u].kv, content')]]

Answer(t) ==
    /\ call[t].op # None /\ call[t].res = None
    /\ \E r \in call[t].answers : call' = [call EXCEPT ![t].res = r]
    /\ UNCHANGED content

End(t) ==
    /\ call[t].res # None
    /\ call' = [call EXCEPT ![t] = NoCall]
    /\ UNCHANGED content

Next ==
    \E t \in Threads :
        \/ \E x \in Calls : Begin(t, x.op, x.kv)
        \/ Change(t) \/ Answer(t) \/ End(t)

Spec == Init /\ [][Next]_vars
=============================================================================
