---------------------------- MODULE AdvFragmenter ----------------------------
(***************************************************************************)
(* The advertising-data fragmenter of btm_ble_multi_adv.cc:                *)
(* DivideAndSendData / DivideAndSendDataRecursively.                       *)
(*                                                                         *)
(* A payload is cut into chunks of at most EXT_ADV_DATA_LEN_MAX (251) or   *)
(* PERIODIC_ADV_DATA_LEN_MAX (252) bytes.  Each chunk is handed to a       *)
(* sender (an HCI command); the next chunk is only cut from the sender's   *)
(* completion callback, so the recursion is an asynchronous chain.  The    *)
(* chain ends by calling done_cb with the first non-zero status, or with   *)
(* 0 once every byte was sent.                                             *)
(*                                                                         *)
(* The payload's bytes are abstracted to their positions 1..len, so a      *)
(* chunk is the sub-sequence it carries and reassembly is checkable.       *)
(***************************************************************************)
EXTENDS Integers, Sequences, SequencesExt

CONSTANTS
  Lens,        \* payload lengths the caller may pass
  Statuses     \* statuses the sender's completion may report (0 = success)

ASSUME Lens \subseteq Nat /\ 0 \in Statuses

\* Operation codes of LE Set Extended Advertising / Scan Response Data.
INTERMEDIATE == 0
FIRST        == 1
LAST         == 2
COMPLETE     == 3

EXT_ADV_DATA_LEN_MAX      == 251
PERIODIC_ADV_DATA_LEN_MAX == 252

VARIABLES
  data,        \* the payload: <<1, ..., len>>
  periodic,    \* is_periodic_adv_data
  isFirst,     \* argument isFirst of the next recursive call
  offset,      \* argument offset of the next recursive call
  status,      \* argument status of the next recursive call
  pc,          \* "call": a recursive call is posted; "wait": sender in flight; "done"
  sent,        \* history: chunks handed to the sender, [op, bytes]
  reports,     \* history: statuses reported by the sender's completions
  doneCalls    \* history: statuses passed to done_cb

vars == <<data, periodic, isFirst, offset, status, pc, sent, reports, doneCalls>>

\* adv_data_length_max, chosen by the kind of data.
MaxChunk(isPeriodic) ==
  IF isPeriodic THEN PERIODIC_ADV_DATA_LEN_MAX ELSE EXT_ADV_DATA_LEN_MAX

\* (mutant) a payload of exactly max bytes taken as needing more chunks
ChunkOp_AtBoundary(first, size, off, max) ==
  LET more == size - off >= max
  IN  IF first THEN (IF more THEN FIRST ELSE COMPLETE)
               ELSE (IF more THEN INTERMEDIATE ELSE LAST)

\* The operation code and length of the chunk starting at off.
ChunkOp(first, size, off, max) ==
  LET more == size - off > max
  IN  IF first THEN (IF more THEN FIRST ELSE COMPLETE)
               ELSE (IF more THEN INTERMEDIATE ELSE LAST)

\* (mutant) a full chunk cut one byte too long
ChunkLen_OneOver(size, off, max) ==
  IF size - off > max THEN max + 1 ELSE size - off

ChunkLen(size, off, max) ==
  IF size - off > max THEN max ELSE size - off

Init ==
  /\ \E l \in Lens : data = [k \in 1..l |-> k]
  /\ periodic \in BOOLEAN
  /\ isFirst = TRUE
  /\ offset = 0
  /\ status = 0
  /\ pc = "call"
  /\ sent = <<>>
  /\ reports = <<>>
  /\ doneCalls = <<>>

\* (mutant) end-of-data tested without the isFirst clause: an empty
\* payload reports success without sending a chunk
Finish_NoFirstCheck ==
  /\ pc = "call"
  /\ status # 0 \/ offset = Len(data)
  /\ doneCalls' = Append(doneCalls, status)
  /\ pc' = "done"
  /\ UNCHANGED <<data, periodic, isFirst, offset, status, sent, reports>>

\* (mutant) the status check dropped from the sending branch
SendChunk_IgnoreStatus ==
  /\ pc = "call"
  /\ ~(~isFirst /\ offset = Len(data))
  /\ LET max == MaxChunk(periodic)
         len == ChunkLen(Len(data), offset, max)
     IN  /\ sent' = Append(sent,
                     [op |-> ChunkOp(isFirst, Len(data), offset, max),
                      bytes |-> SubSeq(data, offset + 1, offset + len)])
         /\ offset' = offset + len
  /\ isFirst' = FALSE
  /\ pc' = "wait"
  /\ UNCHANGED <<data, periodic, status, reports, doneCalls>>

\* (mutant) a failing sender drops the continuation
SenderComplete_DropOnError ==
  /\ pc = "wait"
  /\ \E st \in Statuses : /\ status' = st /\ reports' = Append(reports, st)
                          /\ pc' = IF st = 0 THEN "call" ELSE "done"
  /\ UNCHANGED <<data, periodic, isFirst, offset, sent, doneCalls>>

\* One invocation of DivideAndSendDataRecursively: either report to done_cb
\* (error, or end of data) or send the next chunk.
Finish ==
  /\ pc = "call"
  /\ status # 0 \/ (~isFirst /\ offset = Len(data))
  /\ doneCalls' = Append(doneCalls, status)
  /\ pc' = "done"
  /\ UNCHANGED <<data, periodic, isFirst, offset, status, sent, reports>>

SendChunk ==
  /\ pc = "call"
  /\ ~(status # 0 \/ (~isFirst /\ offset = Len(data)))
  /\ LET max == MaxChunk(periodic)
         len == ChunkLen(Len(data), offset, max)
     IN  /\ sent' = Append(sent,
                     [op |-> ChunkOp(isFirst, Len(data), offset, max),
                      bytes |-> SubSeq(data, offset + 1, offset + len)])
         /\ offset' = offset + len
  /\ isFirst' = FALSE
  /\ pc' = "wait"
  /\ UNCHANGED <<data, periodic, status, reports, doneCalls>>

\* The sender's completion callback re-enters the recursion with its status.
SenderComplete ==
  /\ pc = "wait"
  /\ \E st \in Statuses : status' = st /\ reports' = Append(reports, st)
  /\ pc' = "call"
  /\ UNCHANGED <<data, periodic, isFirst, offset, sent, doneCalls>>

Next == Finish \/ SendChunk \/ SenderComplete

Spec == Init /\ [][Next]_vars /\ WF_vars(Next)

-----------------------------------------------------------------------------
(***************************************************************************)
(* Reference definition, from the fragmentation rule of the Core spec:    *)
(* a payload that fits is one COMPLETE chunk (an empty payload included);  *)
(* otherwise FIRST, INTERMEDIATE..., LAST, every chunk but the last full.  *)
(***************************************************************************)
RECURSIVE Tail_(_, _)
Tail_(s, max) ==
  IF Len(s) <= max THEN << [op |-> LAST, bytes |-> s] >>
  ELSE << [op |-> INTERMEDIATE, bytes |-> SubSeq(s, 1, max)] >>
         \o Tail_(SubSeq(s, max + 1, Len(s)), max)

Fragments(s, max) ==
  IF Len(s) <= max THEN << [op |-> COMPLETE, bytes |-> s] >>
  ELSE << [op |-> FIRST, bytes |-> SubSeq(s, 1, max)] >>
         \o Tail_(SubSeq(s, max + 1, Len(s)), max)

\* The first non-zero status of a sequence of statuses, 0 if none.
FirstError(s) ==
  LET errs == {k \in DOMAIN s : s[k] # 0}
  IN  IF errs = {} THEN 0 ELSE s[CHOOSE k \in errs : \A j \in errs : k <= j]

Bytes(chunks) == FlattenSeq([k \in DOMAIN chunks |-> chunks[k].bytes])

TypeOK ==
  /\ periodic \in BOOLEAN
  /\ isFirst \in BOOLEAN
  /\ offset \in 0..Len(data)
  /\ status \in Statuses
  /\ pc \in {"call", "wait", "done"}
  /\ reports \in Seq(Statuses)
  /\ doneCalls \in Seq(Statuses)
  /\ \A k \in DOMAIN sent : /\ sent[k].op \in {INTERMEDIATE, FIRST, LAST, COMPLETE}
                           /\ Len(sent[k].bytes) <= MaxChunk(periodic)

\* Whatever the sender reports, the chunks sent so far are exactly a prefix
\* of the reference fragmentation of the payload: the operation codes and
\* byte ranges cut by DivideAndSendDataRecursively never disagree with it.
SentIsPrefixOfReference ==
  IsPrefix(sent, Fragments(data, MaxChunk(periodic)))

\* When done_cb reports success, the chunks, concatenated in delivery order,
\* are the payload, and their number is the reference count.
SuccessDeliversPayload ==
  (doneCalls = <<0>>) =>
     /\ sent = Fragments(data, MaxChunk(periodic))
     /\ Bytes(sent) = data

\* done_cb is called at most once; no chunk is sent after a completion
\* reported a non-zero status, and that first non-zero status is what
\* done_cb reports.
DoneOnceWithFirstError ==
  /\ Len(doneCalls) <= 1
  /\ \A k \in DOMAIN reports : reports[k] # 0 => Len(sent) = k
  /\ Len(doneCalls) = 1 => doneCalls[1] = FirstError(reports)

\* Every call of DivideAndSendData eventually reports to done_cb.
DoneEventuallyCalled == <>(Len(doneCalls) = 1)
=============================================================================
