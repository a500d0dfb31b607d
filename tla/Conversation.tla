---------------------------- MODULE Conversation ----------------------------
(* What an engine promises its caller: a session is a sequence of tokens,   *)
(* and an answer is the truth about the tokens asked about, whether they    *)
(* came at once or one by one. A call may throw before the model has seen   *)
(* its tokens or after, but never in between.                               *)
EXTENDS Naturals, Sequences

CONSTANTS Token,       \* the set of tokens
          Truth(_),    \* the answer a sequence of tokens deserves
          Thrown       \* what a call that threw leaves instead of an answer

VARIABLES fed,         \* the tokens the session has seen
          question,    \* the tokens the last call asked about
          answer       \* what it returned

Init == fed = <<>> /\ question = <<>> /\ answer = Thrown

Answer == answer' \in {Truth(question'), Thrown}

(* reset_session, or a generate that throws before it has fed its prompt    *)
Forget == fed' = <<>> /\ answer' \in {answer, Thrown}

Start == fed' \in Seq(Token) \ {<<>>} /\ question' = fed' /\ Answer

Continue == /\ \E t \in Token : fed' = Append(fed, t)
            /\ question' = fed'
            /\ Answer

(* A stateless question, or a call that throws before it has fed anything.  *)
Ask == fed' = fed /\ question' \in Seq(Token) /\ Answer

Next == Forget \/ Start \/ Continue \/ Ask

Spec == Init /\ [][Next]_<<fed, question, answer>>
=============================================================================
