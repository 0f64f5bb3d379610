-------------------------------- MODULE Relay --------------------------------
(***************************************************************************)
(* One relay channel of the Discord desktop relay                          *)
(* (services/codex-discord-desktop-relay): what people write in a Discord  *)
(* channel goes to a visible Codex Desktop thread, and what Codex publishes *)
(* comes back, while an operator may close the channel.                    *)
(*                                                                         *)
(* The poller (relay-service.ts), the publish requests (server.ts) and the *)
(* operator's close run concurrently; each await is a step.  The state     *)
(* store's operations are single steps here: RelayState shows that each    *)
(* takes effect at once or not at all.  What touches the window goes       *)
(* through the queue of DesktopQueue and may outlive the relay's own       *)
(* timeout.                                                                *)
(*                                                                         *)
(* Messages of the channel are numbered by their position in its log; a    *)
(* desktop thread label is a number, 0 for none; a binding id is a number  *)
(* that was never used before.  Left out: the command channel, binding     *)
(* notes, turn states, and the commands that only answer.                  *)
(***************************************************************************)
EXTENDS DesktopQueue, DesktopHelper

CONSTANTS
  Labels,      \* the visible desktop thread labels
  UserKinds,   \* what users write: see KindsAssumption
  MaxMessages, \* bound: messages users write
  MaxPublishes, \* bound: requests to publish
  MaxFaults    \* bound: crashes, failed calls of Discord or of the store

ASSUME LabelsAssumption == Labels \subseteq Nat \ {0} /\ IsFiniteSet(Labels) /\ Labels # {}
ASSUME KindsAssumption ==
  /\ UserKinds \subseteq {"prompt", "bind current", "refresh binding", "archive", "recover publish"}
  /\ MaxMessages \in Nat /\ MaxPublishes \in Nat /\ MaxFaults \in Nat

VARIABLES
  log,      \* the messages of the Discord channel, in the order of their ids
  open,     \* whether the Discord channel exists
  mapping,  \* the channel's mapping in the relay's state
  fresh,    \* the next unused binding id
  poll,     \* the poll under way
  action,   \* what each desktop action is for, and what became of it
  publish,  \* the publish request that answers each action's prompt
  closer,   \* the operator's close request
  faults,   \* history: how many faults there were
  excused,  \* history: the messages a poll left half forwarded, or had to read again
  batched   \* history: whether a later message of a list was ever forwarded

relayVars == <<log, open, mapping, fresh, poll, action, publish, closer, faults, excused, batched>>

vars == <<queueVars, relayVars>>

-----------------------------------------------------------------------------
(* Records.                                                                 *)

Status == {"ready", "waiting_for_codex", "needs_manual_binding", "error"}

\* `named`: the Discord channel has the name its label asks for.
NoMapping == [binding |-> 0, label |-> 0, status |-> "ready", seen |-> 0, named |-> TRUE]

Mapped == mapping.binding # 0

\* A mapping made for a channel that has none: ensureChannel, markRefused.
Created(status) ==
  [binding |-> fresh, label |-> 0, status |-> status, seen |-> 0, named |-> TRUE]

NoPoll == [at |-> "idle", snap |-> NoMapping, todo |-> <<>>, map |-> NoMapping,
           act |-> 0, label |-> 0, reply |-> "none", post |-> 0, later |-> FALSE]

NoAction == [msg |-> 0, kind |-> "none", binding |-> 0, delivered |-> FALSE]

Message == Head(poll.todo)

Init ==
  /\ QueueInit
  /\ log = <<>>
  /\ open = TRUE
  /\ \E label \in {0} \cup Labels :
       mapping = [binding |-> 1, label |-> label, seen |-> 0, named |-> TRUE,
                  status |-> IF label = 0 THEN "needs_manual_binding" ELSE "ready"]
  /\ fresh = 2
  /\ poll = NoPoll
  /\ action = [a \in Actions |-> NoAction]
  /\ publish = [a \in Actions |-> [at |-> "none", post |-> 0]]
  /\ closer = "idle"
  /\ faults = 0
  /\ excused = {}
  /\ batched = FALSE

-----------------------------------------------------------------------------
(* Polls.  At most one runs at a time: pollOnce returns at once otherwise.   *)

Users == {k \in 1 .. Len(log) : log[k].by = "user"}

At(place) == poll.at = place

GoTo(place) == poll' = [poll EXCEPT !.at = place]

\* The list from here on.  A message of a user is handled with the mapping of
\* the snapshot, read before the list, once the channel has the name it should.
Begin(todo, later) ==
  poll' = IF todo = <<>> THEN NoPoll
          ELSE [NoPoll EXCEPT !.snap = poll.snap, !.map = poll.snap, !.todo = todo, !.later = later,
                  !.at = IF log[Head(todo)].by # "user" THEN "bot"
                         ELSE IF poll.snap.label # 0 /\ ~poll.snap.named THEN "rename"
                         ELSE "dispatch"]

NextMessage == Begin(Tail(poll.todo), poll.later \/ log[Message].by = "user")

Reply(kind) == poll' = [poll EXCEPT !.at = "reply", !.reply = kind]

StartPoll ==
  /\ At("idle") /\ Mapped
  /\ poll' = [NoPoll EXCEPT !.at = "list", !.snap = mapping]
  /\ UNCHANGED <<queueVars, log, open, mapping, fresh, action, publish, closer, faults, excused, batched>>

\* Everything after the cursor of the snapshot, oldest first.
List ==
  /\ At("list") /\ open
  /\ Begin([k \in 1 .. Len(log) - poll.snap.seen |-> poll.snap.seen + k], FALSE)
  /\ UNCHANGED <<queueVars, log, open, mapping, fresh, action, publish, closer, faults, excused, batched>>

PassBotMessage ==
  /\ At("bot") /\ Mapped
  /\ mapping' = [mapping EXCEPT !.seen = Message]
  /\ NextMessage
  /\ UNCHANGED <<queueVars, log, open, fresh, action, publish, closer, faults, excused, batched>>

-----------------------------------------------------------------------------
(* syncDiscordChannelName: rename the channel, then ensureChannel, which     *)
(* makes a new mapping if there is none any more.                            *)

AfterRename == IF poll.reply = "none" THEN "dispatch" ELSE "reply"

RenameChannel ==
  /\ At("rename")
  /\ \/ open /\ GoTo("renamed")
     \/ GoTo(AfterRename)
  /\ UNCHANGED <<queueVars, log, open, mapping, fresh, action, publish, closer, faults, excused, batched>>

EnsureChannel ==
  /\ At("renamed")
  /\ mapping' = IF Mapped THEN [mapping EXCEPT !.named = TRUE] ELSE Created("needs_manual_binding")
  /\ fresh' = IF Mapped THEN fresh ELSE fresh + 1
  /\ poll' = [poll EXCEPT !.at = AfterRename, !.map = mapping']
  /\ UNCHANGED <<queueVars, log, open, action, publish, closer, faults, excused, batched>>

-----------------------------------------------------------------------------
(* handleMappedChannelMessage.                                               *)

\* What a message asks for.  A message without a body and "check" are answered and
\* change nothing else, as a recovery that is refused is.
Dispatched(kind) == At("dispatch") /\ log[Message].kind = kind

\* A request to the desktop API: a new action at the end of its queue.
Submit(kind, map) ==
  LET a == Len(asked) + 1
  IN  /\ a \in Actions
      /\ action' = [action EXCEPT ![a] = [NoAction EXCEPT !.msg = Message, !.kind = kind,
                      !.binding = map.binding]]
      /\ Enqueue(a)
      /\ poll' = [poll EXCEPT !.at = "desktop", !.act = a]
      /\ batched' = (batched \/ poll.later)
      /\ UNCHANGED <<log, open, mapping, fresh, publish, closer, faults, excused>>

Answers(kind) ==
  /\ Reply(kind)
  /\ UNCHANGED <<queueVars, log, open, mapping, fresh, action, publish, closer, faults, excused, batched>>

Waiting(map) == map.status = "waiting_for_codex"

\* shouldTryFirstPromptCreate, for a channel made by a command or an operator: a
\* mapping that markRefused made has no channel left whose messages are read.
FirstPrompt(map) == map.label = 0 /\ map.status \in {"needs_manual_binding", "error"}

\* A bound thread may be seen working; then the prompt is refused.
HandlePrompt ==
  /\ Dispatched("prompt")
  /\ \/ Waiting(poll.map) /\ Answers("plain")
     \/ ~Waiting(poll.map) /\ FirstPrompt(poll.map) /\ Submit("create", poll.map)
     \/ ~Waiting(poll.map) /\ ~FirstPrompt(poll.map) /\ Answers("refusal")
     \/ ~Waiting(poll.map) /\ poll.map.label # 0 /\ Submit("prompt", poll.map)

HandleBindCurrent ==
  /\ Dispatched("bind current")
  /\ Submit("readback", poll.map)

\* injectBindingNoteIfIdle, for the channel it is asked in: the desktop and the
\* thread may be missing or busy.  Whether the channel waits is not asked.
HandleRefreshBinding ==
  /\ Dispatched("refresh binding")
  /\ \/ Answers("note")
     \/ poll.map.label # 0 /\ Submit("note", poll.map)

HandleArchive ==
  /\ Dispatched("archive")
  /\ IF Waiting(poll.map) THEN Reply("plain") ELSE GoTo("delete")
  /\ UNCHANGED <<queueVars, log, open, mapping, fresh, action, publish, closer, faults, excused, batched>>

\* handleArchiveChannel: first Discord's channel, then the mapping.
DeleteChannel ==
  /\ At("delete") /\ open
  /\ open' = FALSE
  /\ GoTo("unmap")
  /\ UNCHANGED <<queueVars, log, mapping, fresh, action, publish, closer, faults, excused, batched>>

Unmap ==
  /\ At("unmap")
  /\ mapping' = NoMapping
  /\ NextMessage
  /\ UNCHANGED <<queueVars, log, open, fresh, action, publish, closer, faults, excused, batched>>

\* operatorRecoverPublish, which reads the store afresh; the thread may be
\* missing or busy.
HandleRecover ==
  /\ Dispatched("recover publish")
  /\ \/ Answers("plain")
     \/ Mapped /\ Waiting(mapping) /\ mapping.label # 0 /\ Submit("recover", mapping)

-----------------------------------------------------------------------------
(* The desktop's answer and what the relay records of it.                    *)

\* Mutant: the poll goes on as if a request that timed out had been accepted.
TimeoutCounts == "accepted"

OnTimeout == "refused"

\* respondToDesktopResult, or the rest of a recovery: what follows an answer.
Answered(outcome, label) ==
  LET kind == action[poll.act].kind
  IN  IF kind = "recover" THEN Reply("plain")
      ELSE IF outcome = "refused" THEN Reply(IF kind = "note" THEN "note" ELSE "refusal")
      ELSE poll' = [poll EXCEPT !.label = label, !.at = IF label # 0 THEN "bind" ELSE "accept"]

\* What the window, its helper and the API may make of each kind of request.
ResponsesTo == [kind \in {"prompt", "create", "readback", "note", "recover"} |-> Responses(kind, Labels)]

\* The API answers, and the relay believes no more than the answer says.
RunAction(a) ==
  LET kind == action[a].kind
  IN  /\ End(a)
      /\ \E response \in ResponsesTo[kind] :
           /\ action' = [action EXCEPT ![a].delivered = response.answer.took]
           /\ IF ~At("desktop") \/ poll.act # a THEN UNCHANGED poll
              ELSE IF ~Submitted(kind, response) THEN Answered("refused", 0)
              ELSE \E label \in LabelsAfter(kind, response, poll.map.label, Labels) :
                     Answered("accepted", label)
      /\ UNCHANGED <<log, open, mapping, fresh, publish, closer, faults, excused, batched>>

\* The request times out while its action stays in the queue.
RequestTimesOut ==
  /\ At("desktop")
  /\ Answered(OnTimeout, poll.map.label)
  /\ UNCHANGED <<queueVars, log, open, mapping, fresh, action, publish, closer, faults, excused, batched>>

\* Only `bind current` rotates the binding id when the label changes.
BindChannel ==
  LET isBind == action[poll.act].kind = "readback"
      moved  == poll.label # mapping.label
  IN  /\ At("bind") /\ Mapped
      /\ mapping' = [mapping EXCEPT !.label = poll.label, !.status = "ready",
           !.binding = IF isBind /\ moved THEN fresh ELSE @,
           !.named = @ /\ ~moved]
      /\ fresh' = IF isBind /\ moved THEN fresh + 1 ELSE fresh
      /\ poll' = CASE isBind -> [poll EXCEPT !.reply = "plain",
                                 !.at = IF mapping'.named THEN "reply" ELSE "rename"]
                   [] action[poll.act].kind = "note" -> [poll EXCEPT !.reply = "note", !.at = "reply"]
                   [] OTHER -> [poll EXCEPT !.at = "accept"]
      /\ UNCHANGED <<queueVars, log, open, action, publish, closer, faults, excused, batched>>

\* Mutant: the acceptance does not move the channel's cursor.
AcceptedCursor(seen) == mapping.seen

CursorOnAccept(seen) == seen

\* markInboundAccepted.
MarkInboundAccepted ==
  /\ At("accept") /\ Mapped
  /\ mapping' = [mapping EXCEPT !.status = "waiting_for_codex", !.seen = CursorOnAccept(Message)]
  /\ poll' = [poll EXCEPT !.reply = "plain",
       !.at = IF poll.label = 0 \/ mapping.named THEN "reply" ELSE "rename"]
  /\ UNCHANGED <<queueVars, log, open, fresh, action, publish, closer, faults, excused, batched>>

\* The relay says so in the channel.
PostReply ==
  /\ At("reply") /\ open
  /\ log' = Append(log, [by |-> "relay", kind |-> "reply"])
  /\ poll' = [poll EXCEPT !.post = IF poll.reply = "note" THEN Message ELSE Len(log) + 1,
       !.at = IF poll.reply = "refusal" THEN "refuse" ELSE "seen"]
  /\ UNCHANGED <<queueVars, open, mapping, fresh, action, publish, closer, faults, excused, batched>>

MarkRefused ==
  /\ At("refuse")
  /\ mapping' = IF Mapped THEN [mapping EXCEPT !.status = "error"] ELSE Created("error")
  /\ fresh' = IF Mapped THEN fresh ELSE fresh + 1
  /\ GoTo("seen")
  /\ UNCHANGED <<queueVars, log, open, action, publish, closer, faults, excused, batched>>

\* The cursor moves to the relay's own message; after a binding note only to the
\* message that asked for it.
MarkReplySeen ==
  /\ At("seen") /\ Mapped
  /\ mapping' = [mapping EXCEPT !.seen = poll.post]
  /\ NextMessage
  /\ UNCHANGED <<queueVars, log, open, fresh, action, publish, closer, faults, excused, batched>>

-----------------------------------------------------------------------------
(* Failures.                                                                 *)

\* A poll that dies after it asked for a prompt and before it recorded that it
\* was accepted, or said that it was refused, will take the message again.
HalfForwarded ==
  IF poll.act # 0 /\ poll.reply # "plain" THEN excused \cup {Message} ELSE excused

\* The call at hand cannot succeed: the channel or its mapping is gone.
Futile ==
  \/ poll.at \in {"list", "delete", "reply"} /\ ~open
  \/ poll.at \in {"bot", "bind", "accept", "seen"} /\ ~Mapped

\* A call throws: the poll ends, the rest of its list is left for another.
PollFails ==
  /\ ~At("idle")
  /\ Futile \/ faults < MaxFaults
  /\ faults' = IF Futile THEN faults ELSE faults + 1
  /\ poll' = NoPoll
  /\ excused' = HalfForwarded
  /\ UNCHANGED <<queueVars, log, open, mapping, fresh, action, publish, closer, batched>>

\* The relay dies and is started again: its requests are gone, its state is not.
Restart ==
  /\ ~At("idle") \/ closer \notin {"idle", "done"} \/ \E a \in Actions : publish[a].at \in {"checked", "posted"}
  /\ faults < MaxFaults
  /\ faults' = faults + 1
  /\ poll' = NoPoll
  /\ publish' = [a \in Actions |->
       IF publish[a].at \in {"checked", "posted"} THEN [at |-> "done", post |-> 0] ELSE publish[a]]
  /\ closer' = IF closer = "idle" THEN "idle" ELSE "done"
  /\ excused' = IF At("idle") THEN excused ELSE HalfForwarded
  /\ UNCHANGED <<queueVars, log, open, mapping, fresh, action, batched>>

-----------------------------------------------------------------------------
(* Users, Codex and the operator.                                            *)

Say(kind) ==
  /\ open /\ Cardinality(Users) < MaxMessages
  /\ log' = Append(log, [by |-> "user", kind |-> kind])
  /\ UNCHANGED <<queueVars, open, mapping, fresh, poll, action, publish, closer, faults, excused, batched>>

\* Codex, told the binding by the prompt, publishes through the relay.
CheckPublish(a) ==
  /\ Cardinality({b \in Actions : publish[b].at # "none"}) < MaxPublishes
  /\ publish[a].at = "none" /\ action[a].delivered /\ action[a].kind # "readback"
  /\ publish' = [publish EXCEPT ![a].at =
       IF Mapped /\ mapping.binding = action[a].binding THEN "checked" ELSE "done"]
  /\ UNCHANGED <<queueVars, log, open, mapping, fresh, poll, action, closer, faults, excused, batched>>

PostPublished(a) ==
  /\ publish[a].at = "checked"
  /\ IF open
     THEN /\ log' = Append(log, [by |-> "codex", kind |-> "reply"])
          /\ publish' = [publish EXCEPT ![a] = [at |-> "posted", post |-> Len(log) + 1]]
     ELSE publish' = [publish EXCEPT ![a].at = "done"] /\ UNCHANGED log
  /\ UNCHANGED <<queueVars, open, mapping, fresh, poll, action, closer, faults, excused, batched>>

StillBound(a) == Mapped /\ mapping.binding = action[a].binding

\* A record that comes late moves the cursor back over what was handled since.
MarkPublished(a) ==
  /\ publish[a].at = "posted"
  /\ publish' = [publish EXCEPT ![a] = [at |-> "done", post |-> 0]]
  /\ IF StillBound(a)
     THEN /\ mapping' = [mapping EXCEPT !.status = "ready", !.seen = publish[a].post]
          /\ excused' = excused \cup {k \in Users : publish[a].post < k /\ k <= mapping.seen}
     ELSE UNCHANGED <<mapping, excused>>
  /\ UNCHANGED <<queueVars, log, open, fresh, poll, action, closer, faults, batched>>

\* operatorCloseChannel: a waiting channel needs force.
CloseChecks(force) ==
  /\ closer = "idle" /\ Mapped
  /\ Waiting(mapping) => force
  /\ closer' = "checked"
  /\ UNCHANGED <<queueVars, log, open, mapping, fresh, poll, action, publish, faults, excused, batched>>

CloseDeletes ==
  /\ closer = "checked"
  /\ open' = FALSE
  /\ closer' = "deleted"
  /\ UNCHANGED <<queueVars, log, mapping, fresh, poll, action, publish, faults, excused, batched>>

CloseUnmaps ==
  /\ closer = "deleted"
  /\ mapping' = NoMapping
  /\ closer' = "done"
  /\ UNCHANGED <<queueVars, log, open, fresh, poll, action, publish, faults, excused, batched>>

QueueStep == (CountdownEnds \/ AllowNow \/ Wait) /\ UNCHANGED relayVars

Poll ==
  \/ StartPoll \/ List \/ PassBotMessage
  \/ RenameChannel \/ EnsureChannel
  \/ HandlePrompt \/ HandleBindCurrent \/ HandleRefreshBinding \/ HandleArchive \/ HandleRecover
  \/ DeleteChannel \/ Unmap
  \/ RequestTimesOut \/ BindChannel \/ MarkInboundAccepted
  \/ PostReply \/ MarkRefused \/ MarkReplySeen
  \/ PollFails

Next ==
  \/ Poll
  \/ Restart
  \/ \E kind \in UserKinds : Say(kind)
  \/ \E a \in Actions : RunAction(a) \/ CheckPublish(a) \/ PostPublished(a) \/ MarkPublished(a)
  \/ \E force \in BOOLEAN : CloseChecks(force)
  \/ CloseDeletes \/ CloseUnmaps
  \/ QueueStep

Spec == Init /\ [][Next]_vars

-----------------------------------------------------------------------------
(* Properties.                                                               *)

\* The types of the relay's variables.
TypeOK ==
  /\ open \in BOOLEAN /\ batched \in BOOLEAN
  /\ mapping.binding < fresh /\ mapping.status \in Status
  /\ mapping.seen <= Len(log)
  /\ closer \in {"idle", "checked", "deleted", "done"}
  /\ \A a \in Actions : publish[a].at \in {"none", "checked", "posted", "done"}

\* A message is forwarded to Codex twice only if a poll died between asking for
\* the prompt and moving the cursor, or a publish was recorded so late that it
\* moved the cursor back: at-least-once delivery has no other source, whatever
\* polls, timeouts, refusals, renames and closes come together.
ForwardedTo(k) ==
  {a \in Actions : action[a].msg = k /\ action[a].kind \in {"prompt", "create"}}

ForwardedOnce ==
  /\ TypeOK
  /\ \A k \in Users \ excused : Cardinality(ForwardedTo(k)) <= 1

\* A channel that waits for Codex was promised an answer: some prompt carrying
\* its present binding id was delivered, so the publish that ends the wait is
\* not refused as a mismatch.  It can fail once a later message of a list was
\* forwarded with the mapping as it was before the earlier ones.
WaitingIsAnswerable ==
  ~batched /\ Mapped /\ Waiting(mapping) =>
    \E a \in Actions : action[a].delivered /\ action[a].kind # "readback"
                       /\ action[a].binding = mapping.binding

\* "Still waiting for Codex to publish the prior response. I did not forward
\* this message."  "I did not archive this relay channel."  What the relay
\* forwards or archives is not, at that moment, waiting in its own state.
Forwards == Len(asked') > Len(asked) /\ log[Message].kind = "prompt"

Archives == At("dispatch") /\ poll'.at = "delete"

NotWhileWaiting ==
  Forwards \/ Archives => ~(Mapped /\ mapping.status = "waiting_for_codex")

WaitingHonoured == [][NotWhileWaiting]_vars

=============================================================================
