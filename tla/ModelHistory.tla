---------------------------- MODULE ModelHistory ----------------------------
(***************************************************************************)
(* What the model is sent of a session: the messages an AgentLoop keeps      *)
(* (messages_), the append-only transcript beside them, the checkpoints that *)
(* compaction and thread repair put into it, and the recovery every history  *)
(* goes through before it is sent (src/session/session_history_recovery.cpp, *)
(* compact_checkpoint.cpp, thread_repair.cpp, src/commands/compact.cpp, the  *)
(* recording of a step's tool results in src/agent_loop.cpp).                *)
(*                                                                          *)
(* A message is its role, the ids of its tool calls or of the call it        *)
(* answers, and whether it says anything; its tokens count as one.  Rows no  *)
(* projection keeps (timing, file checkpoints, transcript-only notices) and  *)
(* the shell turns of the user are left out.  A process that dies while it   *)
(* writes leaves a partial line, and a record that lacks its newline alone   *)
(* counts as whole.                                                         *)
(***************************************************************************)
EXTENDS Naturals, Sequences, FiniteSets, FiniteSetsExt

CONSTANTS
  CallIds,                 \* the ids of tool calls, NoId among them
  CallLists,               \* the lists of call ids an answer may come with
  NoId,                    \* the id of a malformed call, and of no call
  MaxRecords               \* bound: records in the transcript

ASSUME CallAssumption ==
  MaxRecords \in Nat /\ NoId \in CallIds /\ CallLists \subseteq Seq(CallIds)

Message == [role |-> "user", calls |-> <<>>, id |-> NoId, kind |-> "real"]
User(kind) == [Message EXCEPT !.kind = kind]
Assistant(calls, kind) == [Message EXCEPT !.role = "assistant", !.calls = calls, !.kind = kind]
Result(id, kind) == [Message EXCEPT !.role = "tool", !.id = id, !.kind = kind]
System == [Message EXCEPT !.role = "system"]

(* A checkpoint record carries the history that replaces all before it.      *)
Checkpoint(history, kind) == [role |-> "checkpoint", history |-> history, kind |-> kind]
IsCheckpoint(r) == r.role = "checkpoint"

(* A line that cannot be read, the last one or closed by a later write.      *)
Partial == [role |-> "partial"]
IsMessage(r) == r.role \notin {"checkpoint", "partial"}

VARIABLES
  up,                      \* an AgentLoop has the session
  memory,                  \* its messages_
  disk,                    \* the transcript
  due                      \* ids of the running step whose results are not recorded yet

vars == <<up, memory, disk, due>>

Init == up = TRUE /\ memory = <<>> /\ disk = <<>> /\ due = <<>>

Elements(s) == {s[i] : i \in DOMAIN s}
From(s, i) == SubSeq(s, i, Len(s))

(* The elements of s that are in set, in their order.                        *)
Only(s, set) ==
  LET kept[n \in 0..Len(s)] ==
        IF n = 0 THEN <<>>
        ELSE IF s[n] \in set THEN Append(kept[n - 1], s[n]) ELSE kept[n - 1]
  IN kept[Len(s)]

-----------------------------------------------------------------------------
(* recover_provider_history, one message after the other.                   *)

Fresh == [out |-> <<>>, pending |-> <<>>, called |-> {}]

(* Results still missing become placeholders, in the order of the calls.     *)
Flushed(st) ==
  [st EXCEPT !.out = @ \o [i \in DOMAIN st.pending |-> Result(st.pending[i], "placeholder")],
             !.pending = <<>>]

(* Mutant: an id may be called again.                                        *)
NewCallsRepeated(called, calls) == Only(calls, Elements(calls) \ {NoId})

(* The calls that are well formed and new, each once.                        *)
NewCalls(called, calls) ==
  LET kept[n \in 0..Len(calls)] ==
        IF n = 0 THEN <<>>
        ELSE IF calls[n] = NoId \/ calls[n] \in called \union Elements(kept[n - 1]) THEN kept[n - 1]
        ELSE Append(kept[n - 1], calls[n])
  IN kept[Len(calls)]

WithAssistant(st, m) ==
  LET new == NewCalls(st.called, m.calls) IN
  IF new = <<>> /\ m.kind = "empty" THEN st
  ELSE [out |-> Append(st.out, [m EXCEPT !.calls = new]),
        pending |-> new, called |-> st.called \union Elements(new)]

WithResult(st, m) ==
  IF m.id \in Elements(st.pending)
  THEN [st EXCEPT !.out = Append(@, m),
                  !.pending = Only(@, Elements(@) \ {m.id})]
  ELSE st

(* Mutant: a system row ends the wait for results too.                       *)
EndsWaitEach(m) == m.role # "tool"

EndsWait(m) == m.role \notin {"tool", "system"}

Recovered(st, m) ==
  LET now == IF EndsWait(m) THEN Flushed(st) ELSE st IN
  CASE m.role = "assistant" -> WithAssistant(now, m)
    [] m.role = "tool" -> WithResult(now, m)
    [] OTHER -> [now EXCEPT !.out = Append(@, m)]

(* What the loop has after each message.                                     *)
Recovery(history) ==
  LET st[n \in 0..Len(history)] ==
        IF n = 0 THEN Fresh ELSE Recovered(st[n - 1], history[n])
  IN st

Recover(history) == Flushed(Recovery(history)[Len(history)]).out

-----------------------------------------------------------------------------
(* The history a transcript stands for.                                     *)

Checkpoints(d) == {i \in DOMAIN d : IsCheckpoint(d[i])}

(* The latest checkpoint, if there is one.                                   *)
Start(d) == IF Checkpoints(d) = {} THEN 0 ELSE Max(Checkpoints(d))

Effective(d) ==
  (IF Start(d) = 0 THEN <<>> ELSE d[Start(d)].history)
    \o Only(From(d, Start(d) + 1), {r \in Elements(d) : IsMessage(r)})

-----------------------------------------------------------------------------
(* plan_thread_repair: old turns are cut off until the history is small      *)
(* enough, always one if there are two, never the last.                      *)

IsRealUser(m) == m.role = "user" /\ m.kind = "real"
RealUsers(h) == {i \in DOMAIN h : IsRealUser(h[i])}
Tokens(h) == Len(h)

(* Mutant: the cut is one message late.                                      *)
CutsLate(h, target) == {i + 1 : i \in {j \in RealUsers(h) : j = Max(RealUsers(h))}}

(* Where the history may be cut: before each real user but the first.        *)
Cuts(h, target) ==
  LET later == RealUsers(h) \ {Min(RealUsers(h) \union {Len(h) + 1})} IN
  {i \in later : Tokens(From(h, i)) <= target \/ i = Max(later)}

Pruned(h, target) ==
  IF Cuts(h, target) = {} THEN h ELSE Recover(From(h, Min(Cuts(h, target))))

Repairs(raw, target) == Pruned(Recover(raw), target) # raw

-----------------------------------------------------------------------------
(* compact_messages: the latest real users that fit, and the summary.  While *)
(* its own request is too long, the oldest item goes, with what belongs to   *)
(* it.                                                                      *)

Users(h) == Only(h, {m \in Elements(h) : IsRealUser(m)})

Compacted(h, kept) ==
  Append(From(Users(h), Len(Users(h)) - kept + 1), User("summary"))

(* Mutant: the results of a removed call stay.                               *)
WithoutOldestOnly(h) == Tail(h)

(* A message's calls without one, and the message with them if it is to stay. *)
Uncalled(h, i, id) ==
  LET left == Only(h[i].calls, Elements(h[i].calls) \ {id}) IN
  IF left = <<>> /\ h[i].kind = "empty"
  THEN SubSeq(h, 1, i - 1) \o From(h, i + 1)
  ELSE [h EXCEPT ![i].calls = left]

WithoutOldest(h) ==
  LET oldest == Head(h)
      callers == {i \in DOMAIN h : h[i].role = "assistant" /\ oldest.id \in Elements(h[i].calls)}
  IN
  CASE oldest.role = "assistant" ->
         Only(Tail(h), {m \in Elements(h) : m.role = "tool" => m.id \notin Elements(oldest.calls)})
    [] oldest.role = "tool" /\ oldest.id # NoId /\ callers # {} ->
         Tail(Uncalled(h, Min(callers), oldest.id))
    [] OTHER -> Tail(h)

(* A history after each removal.                                            *)
Shrunk(h) ==
  LET shrunk[n \in 0..Len(h)] ==
        IF n = 0 THEN h
        ELSE IF shrunk[n - 1] = <<>> THEN <<>> ELSE WithoutOldest(shrunk[n - 1])
  IN shrunk

-----------------------------------------------------------------------------
(* The session.                                                             *)

Room(n) == Len(disk) + n <= MaxRecords

(* Mutant: a record written behind a partial line is lost with it.           *)
WrittenBehind(d, r) == IF d # <<>> /\ d[Len(d)] = Partial THEN d ELSE Append(d, r)

(* append_message: a last line without its end is closed first.              *)
Written(d, r) == Append(d, r)

(* messages_.push_back and on_message.                                       *)
Records(m) ==
  /\ Room(1)
  /\ memory' = Append(memory, m)
  /\ disk' = Written(disk, m)

(* A prompt, or a hidden one (goal, hook, nudge).                            *)
UserMessage ==
  /\ up /\ due = <<>>
  /\ \E kind \in {"real", "hidden"} : Records(User(kind))
  /\ UNCHANGED <<up, due>>

(* An answer; its tools run before their results are recorded.               *)
AssistantMessage ==
  /\ up /\ due = <<>>
  /\ \E calls \in CallLists, kind \in {"text", "empty"} :
       /\ Room(1 + Len(calls))
       /\ Records(Assistant(calls, kind))
       /\ due' = calls
  /\ UNCHANGED up

(* The results are recorded in the order of the calls; an interrupted call   *)
(* has one too.                                                             *)
RecordResult ==
  /\ due # <<>>
  /\ Records(Result(Head(due), "real"))
  /\ due' = Tail(due)
  /\ UNCHANGED up

(* A system row.  Nothing here records one that is sent, but transcripts     *)
(* that others wrote hold them, between a call and its result too, and       *)
(* recovery and repair are made for them.                                   *)
SystemRow == up /\ Records(System) /\ UNCHANGED <<up, due>>

(* apply_compact_result.                                                     *)
Compact ==
  /\ up /\ due = <<>>
  /\ Room(1)
  /\ \E kept \in 0..Len(Users(Recover(memory))) :
       memory' = Recover(Compacted(Recover(memory), kept))
  /\ disk' = Written(disk, Checkpoint(memory', "compact"))
  /\ UNCHANGED <<up, due>>

(* apply_thread_repair, on the loop's worker.                                *)
Repair ==
  /\ up /\ due = <<>>
  /\ Room(1)
  /\ \E target \in 1..(Tokens(memory) + 1) :
       /\ Repairs(memory, target)
       /\ memory' = Pruned(Recover(memory), target)
  /\ disk' = Written(disk, Checkpoint(memory', "repair"))
  /\ UNCHANGED <<up, due>>

(* The repair of a session nobody has loaded; a line that cannot be read is  *)
(* reason enough for one.                                                   *)
RepairOnDisk ==
  /\ ~up
  /\ Room(1)
  /\ LET raw == Effective(disk) IN
     \E target \in 1..(Tokens(raw) + 1) :
       /\ Partial \in Elements(disk) \/ Repairs(raw, target)
       /\ disk' = Written(disk, Checkpoint(Pruned(Recover(raw), target), "repair"))
  /\ UNCHANGED <<up, memory, due>>

(* /rewind: a new transcript with what came before a user message.           *)
Rewind ==
  /\ up /\ due = <<>>
  /\ \E i \in RealUsers(memory) : memory' = SubSeq(memory, 1, i - 1)
  /\ disk' = memory'
  /\ UNCHANGED <<up, due>>

(* The process ends, in the middle of a step or not, or the session is       *)
(* closed.                                                                  *)
Ends ==
  /\ up
  /\ up' = FALSE /\ memory' = <<>> /\ due' = <<>>
  /\ UNCHANGED disk

(* The process dies while it writes a record.                                *)
DiesWriting ==
  /\ up /\ Room(1)
  /\ up' = FALSE /\ memory' = <<>> /\ due' = <<>>
  /\ disk' = Written(disk, Partial)

Resume ==
  /\ ~up
  /\ up' = TRUE
  /\ memory' = Effective(disk)
  /\ UNCHANGED <<disk, due>>

Next ==
  \/ UserMessage \/ AssistantMessage \/ RecordResult \/ SystemRow
  \/ Compact \/ Repair \/ RepairOnDisk \/ Rewind \/ Ends \/ DiesWriting \/ Resume

Spec == Init /\ [][Next]_vars

-----------------------------------------------------------------------------
(* Properties.                                                              *)

(* What providers accept: an answer's calls are answered behind it with at   *)
(* most system rows between, each once, nothing else is, and no id is called *)
(* twice.                                                                   *)
Answers(h, i) ==
  {j \in DOMAIN h :
     /\ j > i /\ h[j].role = "tool"
     /\ \A k \in (i + 1)..j : h[k].role \in {"tool", "system"}}
WellPaired(h) ==
  /\ \A i \in DOMAIN h : h[i].role = "assistant" =>
       /\ {h[j].id : j \in Answers(h, i)} = Elements(h[i].calls)
       /\ Cardinality(Answers(h, i)) = Len(h[i].calls)
       /\ h[i].calls # <<>> \/ h[i].kind # "empty"
       /\ \A k \in DOMAIN h : k # i => Elements(h[i].calls) \intersect Elements(h[k].calls) = {}
  /\ \A j \in DOMAIN h : h[j].role = "tool" =>
       \E i \in DOMAIN h : h[i].role = "assistant" /\ j \in Answers(h, i)

(* Whatever was recorded, cut off by crashes, rewound or repeated, what is   *)
(* sent is well paired, and recovering it again changes nothing.             *)
RequestsPaired == WellPaired(Recover(memory)) /\ Recover(Recover(memory)) = Recover(memory)

(* A resumed session sends what the one that ended would have sent: the      *)
(* transcript with its checkpoints stands for the messages in memory.        *)
ResumeAgrees == up => Effective(disk) = memory

(* An outcome-unknown placeholder is sent only for a call whose result was   *)
(* not recorded (an id that another message called too aside).               *)
Callers(h, id) == {i \in DOMAIN h : id \in Elements(h[i].calls)}
RealResultWins ==
  \A m \in Elements(Recover(memory)) :
    m.kind = "placeholder" =>
      \/ Result(m.id, "real") \notin Elements(memory)
      \/ \E i, k \in Callers(memory, m.id) : i # k

(* A compaction whose own request is too long stays well paired however many *)
(* items it gives up.                                                       *)
ShrunkStaysPaired ==
  LET sent == Recover(memory)
  IN \A n \in 0..Len(sent) : WellPaired(Shrunk(sent)[n])

(* A repair only cuts off old turns: what remains is the end of what would   *)
(* have been sent, the last turn of the user whole.                          *)
RepairKeepsLastTurn ==
  [][LET before == Recover(Effective(disk))
         after == Effective(disk')
         last == Max(RealUsers(before) \union {0})
     IN Len(disk') > Len(disk) /\ IsCheckpoint(disk'[Len(disk')]) /\ disk'[Len(disk')].kind = "repair"
        => \E i \in 1..(Len(before) + 1) :
             /\ after = From(before, i)
             /\ i = 1 \/ i <= last]_vars

=============================================================================
