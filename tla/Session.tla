------------------------------ MODULE Session ------------------------------
(***************************************************************************)
(* The connections of the game server (main.rs, network/client.rs,          *)
(* state/connection.rs).  Each accepted socket has one task, which reads a  *)
(* packet, runs its handler to the end and flushes what the handler queued, *)
(* in that order, until one of the three fails; then the connection closes. *)
(* Handlers of different connections interleave at every database call,     *)
(* also those of one player.                                                *)
(*                                                                         *)
(* The steps below are shared by every handler; the modules that EXTEND     *)
(* this one add the handlers.  What a client sends next is a free choice at *)
(* the moment the server reads it, so packets waiting in the socket need no *)
(* variable.                                                                *)
(***************************************************************************)
EXTENDS Naturals, Sequences, FiniteSets, SequencesExt

CONSTANTS
  Conns,        \* connection slots of the accept loop
  None,         \* no player, no battle, no record
  MaxRequests,  \* bound: slot -> packets read on it, over all its connections
  MaxFaults     \* bound: database errors, failed writes and server crashes

VARIABLES
  phase,   \* connection -> where its task is
  player,  \* connection -> ConnectionContext.player_id
  queue,   \* connection -> send_queue
  asked,   \* connection -> packets read on this slot so far
  opened,  \* connection -> value of asked when the socket was accepted
  answers, \* connection -> up_tags of the replies its client has received
  told,    \* history: what clients have learnt from packets received
  faults   \* faults so far

sessionVars == <<phase, player, queue, asked, opened, answers, told, faults>>

\* "none": no socket; "reading": waiting for a packet; "handling": inside
\* dispatch_command; "flushing": inside flush_send_queue; "closing": out of
\* the loop.
Phases == {"none", "reading", "handling", "flushing", "closing"}

\* A packet: a reply carries the up_tag of its request, a push the tag 255;
\* about is what it says.  Pushes that say nothing the properties speak of are
\* left out.
NoTag == 0
Nothing == [kind |-> "none"]
Reply(n, about) == [tag |-> n, about |-> about]
Push(about) == [tag |-> NoTag, about |-> about]

\* The up_tags of the replies among some packets, in the order they are sent:
\* SelectSeq over the packets, written so that it can be reasoned about.
Replies(packets) == {i \in DOMAIN packets : packets[i].tag # NoTag}
Nth(S, k) == CHOOSE i \in S : Cardinality({j \in S : j <= i}) = k
Tags(packets) ==
  [k \in 1..Cardinality(Replies(packets)) |-> packets[Nth(Replies(packets), k)].tag]

\* The client receives packets.
Receive(c, packets) ==
  /\ answers' = [answers EXCEPT ![c] = @ \o Tags(packets)]
  /\ told' = told \cup ({packets[i].about : i \in DOMAIN packets} \ {Nothing})

SessionInit ==
  /\ phase = [c \in Conns |-> "none"]
  /\ player = [c \in Conns |-> None]
  /\ queue = [c \in Conns |-> <<>>]
  /\ asked = [c \in Conns |-> 0]
  /\ opened = [c \in Conns |-> 0]
  /\ answers = [c \in Conns |-> <<>>]
  /\ told = {}
  /\ faults = 0

Goto(c, p) == phase' = [phase EXCEPT ![c] = p]

\* The accept loop gives the socket a fresh ConnectionContext.
Accept(c) ==
  /\ phase[c] = "none" /\ asked[c] < MaxRequests[c]
  /\ Goto(c, "reading")
  /\ player' = [player EXCEPT ![c] = None]
  /\ queue' = [queue EXCEPT ![c] = <<>>]
  /\ opened' = [opened EXCEPT ![c] = asked[c]]
  /\ answers' = [answers EXCEPT ![c] = <<>>]
  /\ UNCHANGED <<asked, told, faults>>

\* read_exact fails: the client is gone.
Leave(c) ==
  /\ phase[c] = "reading"
  /\ Goto(c, "closing")
  /\ UNCHANGED <<player, queue, asked, opened, answers, told, faults>>

\* A packet is read; its handler starts in the same step.
Read(c) ==
  /\ phase[c] = "reading" /\ asked[c] < MaxRequests[c]
  /\ asked' = [asked EXCEPT ![c] = @ + 1]

\* The handler goes on to its next database call.
Continue(c, packets) ==
  /\ Goto(c, "handling")
  /\ queue' = [queue EXCEPT ![c] = @ \o packets]
  /\ UNCHANGED <<opened, answers, told>>

\* The handler returns Ok, having queued its last packets.
Finish(c, packets) ==
  /\ Goto(c, "flushing")
  /\ queue' = [queue EXCEPT ![c] = @ \o packets]
  /\ UNCHANGED <<opened, answers, told>>

\* Mutant of Refuse: what was queued is sent before the loop ends.
FlushAndRefuse(c) ==
  /\ Goto(c, "closing")
  /\ Receive(c, queue[c])
  /\ UNCHANGED <<queue, opened>>

\* The handler returns an error: the loop ends before flush_send_queue, and
\* what was queued is never sent.
Refuse(c) ==
  /\ Goto(c, "closing")
  /\ UNCHANGED <<queue, opened, answers, told>>

\* flush_send_queue pops and writes every packet.
Flush(c) ==
  /\ phase[c] = "flushing"
  /\ Receive(c, queue[c])
  /\ queue' = [queue EXCEPT ![c] = <<>>]
  /\ Goto(c, "reading")
  /\ UNCHANGED <<player, asked, opened, faults>>

\* A write fails: the packets before it were sent, the loop ends.
FlushFails(c) ==
  /\ phase[c] = "flushing" /\ faults < MaxFaults
  /\ \E sent \in 0..(Len(queue[c]) - 1) :
       /\ Receive(c, SubSeq(queue[c], 1, sent))
       /\ queue' = [queue EXCEPT ![c] = SubSeq(@, sent + 2, Len(@))]
  /\ Goto(c, "closing")
  /\ faults' = faults + 1
  /\ UNCHANGED <<player, asked, opened>>

\* The task ends and drops its context.
Close(c) ==
  /\ phase[c] = "closing"
  /\ Goto(c, "none")
  /\ player' = [player EXCEPT ![c] = None]
  /\ queue' = [queue EXCEPT ![c] = <<>>]
  /\ UNCHANGED <<asked, opened, answers, told, faults>>

-----------------------------------------------------------------------------
\* A client is answered in the order it asked, each request once and none
\* skipped: one connection never overtakes or repeats a reply.
AnswersInOrder ==
  \A c \in Conns : \A i \in DOMAIN answers[c] : answers[c][i] = opened[c] + i

\* Every packet read since the socket was accepted has its reply.
AllAnswered(c) == Len(answers[c]) = asked[c] - opened[c]
Gone(c) == phase[c] \in {"closing", "none"}

SessionTypeOK ==
  /\ phase \in [Conns -> Phases]
  /\ \A c \in Conns : opened[c] \in 0..asked[c] /\ asked[c] \in 0..MaxRequests[c]
  /\ faults \in 0..MaxFaults
=============================================================================
