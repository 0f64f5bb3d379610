---------------------------- MODULE DesktopHelper ----------------------------
(***************************************************************************)
(* What becomes of a request to the visible Codex Desktop window, from the *)
(* PowerShell helper that clicks and types (codex_desktop_uia_helper.ps1)  *)
(* through codex-desktop-api to its two clients: the relay, which wants to *)
(* know whether its prompt was submitted, and the protocol runner, which   *)
(* wants to know whether it was sent.                                      *)
(*                                                                         *)
(* The helper runs alone, under a lock file, and is killed after a minute. *)
(* An answer carries what its caller cannot see: whether the window took   *)
(* the text.  A thread label is a number, 0 for none; the answers that     *)
(* differ in wording only are one.                                         *)
(***************************************************************************)
EXTENDS Naturals

\* A helper's answer; anything that is not a JSON object counts as an error.
Answer(result, label, confirmed, took) ==
  [result |-> result, label |-> label, confirmed |-> confirmed, took |-> took]

\* The helper finds no window, no row or two, a row it cannot select, no compose
\* box or no way to submit: nothing has been sent so far.
Refused == Answer("refused", 0, FALSE, FALSE)

\* A prompt is typed only after the row of the thread asked for was seen selected.
PromptAnswers == {Refused, Answer("applied", 0, TRUE, TRUE)}

\* A new thread is not confirmed, and whatever row is selected then is its label:
\* none, as long as the row is named like a button of the sidebar.
CreateAnswers(labels) ==
  {Refused} \cup {Answer("applied", label, FALSE, TRUE) : label \in {0} \cup labels}

\* A readback types nothing.
ReadbackAnswers(labels) ==
  {Refused} \cup {Answer("applied", label, FALSE, FALSE) : label \in {0} \cup labels}

AnswersTo(kind, labels) ==
  CASE kind = "create"   -> CreateAnswers(labels)
    [] kind = "readback" -> ReadbackAnswers(labels)
    [] OTHER             -> PromptAnswers

\* A helper that is killed, or ends without a JSON line, may have been anywhere.
Cut(answers) == {Answer("error", 0, FALSE, took) : took \in {FALSE} \cup {a.took : a \in answers}}

\* The answer is the last JSON line of the output, whatever the exit code.
Endings(answers) == answers \cup Cut(answers)

\* An HTTP response; one that is not ok says nothing of the window.
Response(ok, answer) == [ok |-> ok, answer |-> answer]

Failure(took) == Response(FALSE, Answer("none", 0, FALSE, took))

\* The lock stayed with somebody else for two minutes, or could not be opened.
LockedOut == Failure(FALSE)

\* A creation lists the threads of the workspace first.
ListFails(kind) == IF kind = "create" THEN {Failure(FALSE)} ELSE {}

\* It then looks for the one it made, whatever the window has answered: up to 24
\* lists, and one that fails is an error of the request although the new thread
\* may have its prompt.
ReconcileFails(kind) == IF kind = "create" THEN {Failure(took) : took \in BOOLEAN} ELSE {}

Responses(kind, labels) ==
  {Response(TRUE, answer) : answer \in Endings(AnswersTo(kind, labels))}
  \cup {LockedOut} \cup ListFails(kind) \cup ReconcileFails(kind)

-----------------------------------------------------------------------------
(* The relay: submitPrompt, createThread, bindCurrent of its adapter.        *)

\* Mutant: an answer of the API is enough.
SubmittedIfOk(kind, response) == response.ok /\ (kind = "readback" => response.answer.label # 0)

Submitted(kind, response) ==
  /\ response.ok /\ response.answer.result = "applied"
  /\ kind \in {"prompt", "note", "recover"} => response.answer.confirmed
  /\ kind = "readback" => response.answer.label # 0

\* The label the relay goes on with: for a prompt the one it asked for, for a new
\* thread without one whatever a readback of its own tells.
LabelsAfter(kind, response, asked, labels) ==
  IF kind \in {"prompt", "note", "recover"} THEN {asked}
  ELSE IF kind = "create" /\ response.answer.label = 0 THEN {0} \cup labels
  ELSE {response.answer.label}

-----------------------------------------------------------------------------
(* The protocol runner: sendPrompt of its adapter, sendCurrentPrompt.        *)

\* A call that is aborted or whose answer cannot be read throws.
NoResponse == Response(FALSE, Answer("exception", 0, FALSE, FALSE))

SendStatus(response) ==
  IF response = NoResponse THEN "unknown"
  ELSE IF ~response.ok \/ response.answer.result # "applied" THEN "not_sent"
  ELSE IF response.answer.confirmed THEN "sent" ELSE "unknown"

\* What the adapter can say of a prompt.
SendStatuses == {SendStatus(r) : r \in Responses("prompt", {}) \cup {NoResponse}}

ShouldAwaitStartReport(send_status) == send_status = "sent"
=============================================================================
