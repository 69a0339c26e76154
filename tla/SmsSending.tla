----------------------------- MODULE SmsSending -----------------------------
(***************************************************************************)
(* What send_sms promises a caller who waits for one text to end before    *)
(* asking for the next: the text is put on the line part by part, in       *)
(* order, and on_sms_sent is called when all of its parts are out.  The    *)
(* driver may give up a text at any time, without a word.                  *)
(***************************************************************************)
EXTENDS Naturals, Sequences

CONSTANTS Jobs,   \* what can be asked for: a text and who is to get it
          Parts,  \* job -> the sequence of parts that carry it
          Nobody  \* no job

VARIABLES asked,  \* the job asked for and not begun, or Nobody
          job,    \* the job being sent, or Nobody
          out,    \* its parts that are out
          told    \* the last step called on_sms_sent

Start == asked = Nobody /\ job = Nobody /\ out = <<>> /\ told = FALSE

Ask(j) == /\ asked = Nobody /\ job = Nobody
          /\ asked' = j /\ told' = FALSE
          /\ UNCHANGED <<job, out>>

Begin == /\ asked # Nobody /\ job = Nobody
         /\ asked' = Nobody /\ job' = asked /\ told' = FALSE
         /\ UNCHANGED out

PutOut == /\ job # Nobody /\ Len(out) < Len(Parts[job])
          /\ out' = Append(out, Parts[job][Len(out) + 1]) /\ told' = FALSE
          /\ UNCHANGED <<asked, job>>

End == job # Nobody /\ job' = Nobody /\ out' = <<>> /\ UNCHANGED asked

Report == End /\ out = Parts[job] /\ told' = TRUE
GiveUp == End /\ told' = FALSE

\* The node restarts.
Reset == asked' = Nobody /\ job' = Nobody /\ out' = <<>> /\ told' = FALSE

\* The caller has been told, and something else happens.
GoOn == told /\ told' = FALSE /\ UNCHANGED <<asked, job, out>>

Step == \/ Begin \/ PutOut \/ Report \/ GiveUp \/ Reset \/ GoOn
        \/ \E j \in Jobs : Ask(j)

SendingSpec == Start /\ [][Step]_<<asked, job, out, told>>
=============================================================================
