------------------------------ MODULE KStream ------------------------------
(***************************************************************************)
(* Thread streams: kernel/src/kstream.c.  A stream is a block with a pipe,  *)
(* linked into g_streams, and one block per handle; the blocks come from    *)
(* the kernel side of the allocator (module KMemory).  A call is a series   *)
(* of critical sections and allocator calls, one step each: with the tick   *)
(* installed other threads run between them.  No function reads or writes   *)
(* the ring buffer of a pipe, so its positions are left out.                *)
(***************************************************************************)
EXTENDS Integers, FiniteSets, SequencesExt

CONSTANTS Threads,        \* the tids, all of them valid
          Blocks,         \* the blocks the allocator can hand out
          TickAttached,   \* whether a thread can be preempted in a call
          LateFailures,   \* whether an open that gets no handle may be overtaken
                          \* by another call on its stream before it is undone
          MaxHandles      \* bound: the handles a thread holds at a time

ASSUME StreamAssumption ==
    /\ IsFiniteSet(Threads) /\ IsFiniteSet(Blocks)
    /\ TickAttached \in BOOLEAN /\ LateFailures \in BOOLEAN
    /\ MaxHandles \in Nat

VARIABLES
    g_streams,   \* the list of linked pipes, newest first
    pipe,        \* tstream_pipe_t of the blocks that hold one
    used,        \* the blocks handed out
    handles,     \* the tstream_t each thread holds: its block, pipe and side
    call         \* where each thread stands in a call

vars == <<g_streams, pipe, used, handles, call>>

NoPipe == [at |-> "free"]      \* the block holds no pipe
Idle == [at |-> "idle"]
Ended == [at |-> "ended"]

Linked == ToSet(g_streams)

(* tstream_find_pipe(): the first of the list; the places that match. *)
Matches(dest) == {n \in DOMAIN g_streams : pipe[g_streams[n]].dest = dest}
tstream_find_pipe(dest) == g_streams[Min(Matches(dest))]

(* tstream_unlink_pipe(): the first place that holds b leaves the list.     *)
Places(b) == {n \in DOMAIN g_streams : g_streams[n] = b}
tstream_unlink_pipe(b) ==
    g_streams' = IF Places(b) = {} THEN g_streams ELSE RemoveAt(g_streams, Min(Places(b)))

(* mem_block_consume_kernel() and mem_block_return_kernel() of one block. *)
Consume(b) == b \in Blocks \ used /\ used' = used \cup {b}
Exhausted == used = Blocks
Return(b) == used' = used \ {b}

(* Thread t executes a step of the call it is in at place at; without the   *)
(* tick a call runs to its end before another thread does anything, and     *)
(* without late failures a failed open undoes itself before.                *)
Failing(u) == call[u].at \in {"unlink", "undo"}
Scheduled(t) ==
    \A u \in Threads \ {t} :
        /\ TickAttached \/ call[u] \in {Idle, Ended}
        /\ LateFailures \/ ~Failing(u)
In(t, at) == Scheduled(t) /\ call[t].at = at
Goto(t, at) == call' = [call EXCEPT ![t] = [at |-> at, pipe |-> call[t].pipe]]
Returns(t) == call' = [call EXCEPT ![t] = Idle]

Init ==
    /\ g_streams = <<>>
    /\ pipe = [b \in Blocks |-> NoPipe]
    /\ used = {}
    /\ handles = [t \in Threads |-> {}]
    /\ call = [t \in Threads |-> Idle]

-----------------------------------------------------------------------------
(* tstream_wopen(dest).  The calls refused at once, for a stream to oneself *)
(* or to a thread that has one already, change nothing.                     *)
tstream_wopen(t, dest) ==
    /\ In(t, "idle")
    /\ Cardinality(handles[t]) < MaxHandles
    /\ t # dest
    /\ Matches(dest) = {}
    /\ call' = [call EXCEPT ![t] = [at |-> "alloc", dest |-> dest]]
    /\ UNCHANGED <<g_streams, pipe, used, handles>>

(* Mutant: reader_count keeps what the block held before. *)
MutWopenAllocUninitialised(t) ==
    /\ In(t, "alloc")
    /\ \E b \in Blocks :
          /\ Consume(b)
          /\ pipe' = [pipe EXCEPT ![b] = [source |-> t, dest |-> call[t].dest,
                                          readers |-> -1, writer_open |-> TRUE]]
          /\ call' = [call EXCEPT ![t] = [at |-> "link", pipe |-> b]]
    /\ UNCHANGED <<g_streams, handles>>

(* tstream_alloc_pipe(). *)
WopenAlloc(t) ==
    /\ In(t, "alloc")
    /\ \/ \E b \in Blocks :
             /\ Consume(b)
             /\ pipe' = [pipe EXCEPT ![b] = [source |-> t, dest |-> call[t].dest,
                                             readers |-> 0, writer_open |-> TRUE]]
             /\ call' = [call EXCEPT ![t] = [at |-> "link", pipe |-> b]]
       \/ Exhausted /\ Returns(t) /\ UNCHANGED <<pipe, used>>
    /\ UNCHANGED <<g_streams, handles>>

(* Mutant: the list is not searched again before the pipe is linked. *)
MutWopenLinkUnchecked(t) ==
    /\ In(t, "link")
    /\ g_streams' = <<call[t].pipe>> \o g_streams
    /\ Goto(t, "handle")
    /\ UNCHANGED <<pipe, used, handles>>

(* Mutant: only a pipe that is still open for writing stands in the way.    *)
MutWopenLinkIgnoresReaders(t) ==
    /\ In(t, "link")
    /\ IF \A n \in Matches(pipe[call[t].pipe].dest) : ~pipe[g_streams[n]].writer_open
       THEN g_streams' = <<call[t].pipe>> \o g_streams /\ Goto(t, "handle")
       ELSE Goto(t, "drop") /\ UNCHANGED g_streams
    /\ UNCHANGED <<pipe, used, handles>>

WopenLink(t) ==
    /\ In(t, "link")
    /\ IF Matches(pipe[call[t].pipe].dest) = {}
       THEN g_streams' = <<call[t].pipe>> \o g_streams /\ Goto(t, "handle")
       ELSE Goto(t, "drop") /\ UNCHANGED g_streams
    /\ UNCHANGED <<pipe, used, handles>>

(* No handle for a pipe, for want of blocks; pristine says that the pipe is *)
(* as the call has left it.                                                 *)
Refused(pristine) == Exhausted /\ (LateFailures \/ pristine)

(* tstream_make_handle(): out of blocks, the pipe is withdrawn. *)
WopenHandle(t) ==
    /\ In(t, "handle")
    /\ \/ \E b \in Blocks :
             /\ Consume(b)
             /\ handles' = [handles EXCEPT ![t] = @ \cup
                               {[block |-> b, pipe |-> call[t].pipe, writer |-> TRUE]}]
             /\ Returns(t)
       \/ /\ Refused(pipe[call[t].pipe].readers = 0)
          /\ Goto(t, "unlink")
          /\ UNCHANGED <<used, handles>>
    /\ UNCHANGED <<g_streams, pipe>>

WopenUnlink(t) ==
    /\ In(t, "unlink")
    /\ tstream_unlink_pipe(call[t].pipe)
    /\ Goto(t, "drop")
    /\ UNCHANGED <<pipe, used, handles>>

(* tstream_free_pipe(), the end of a failed wopen and of a close. *)
FreePipe(t) ==
    /\ In(t, "drop")
    /\ Return(call[t].pipe)
    /\ pipe' = [pipe EXCEPT ![call[t].pipe] = NoPipe]
    /\ Returns(t)
    /\ UNCHANGED <<g_streams, handles>>

-----------------------------------------------------------------------------
(* Mutant: a stream the writer has closed can be opened again.              *)
MutRopenAfterWriter(t) ==
    /\ In(t, "idle")
    /\ Cardinality(handles[t]) < MaxHandles
    /\ Matches(t) # {}
    /\ LET b == tstream_find_pipe(t)
       IN /\ pipe' = [pipe EXCEPT ![b].readers = @ + 1]
          /\ call' = [call EXCEPT ![t] = [at |-> "reader", pipe |-> b]]
    /\ UNCHANGED <<g_streams, used, handles>>

(* tstream_ropen() of the caller's own stream, the only one it may read;    *)
(* without a pipe that a writer holds open the call changes nothing.        *)
tstream_ropen(t) ==
    /\ In(t, "idle")
    /\ Cardinality(handles[t]) < MaxHandles
    /\ Matches(t) # {}
    /\ LET b == tstream_find_pipe(t)
       IN /\ pipe[b].writer_open
          /\ pipe' = [pipe EXCEPT ![b].readers = @ + 1]
          /\ call' = [call EXCEPT ![t] = [at |-> "reader", pipe |-> b]]
    /\ UNCHANGED <<g_streams, used, handles>>

RopenHandle(t) ==
    /\ In(t, "reader")
    /\ \/ \E b \in Blocks :
             /\ Consume(b)
             /\ handles' = [handles EXCEPT ![t] = @ \cup
                               {[block |-> b, pipe |-> call[t].pipe, writer |-> FALSE]}]
             /\ Returns(t)
       \/ /\ Refused(pipe[call[t].pipe].writer_open)
          /\ Goto(t, "undo")
          /\ UNCHANGED <<used, handles>>
    /\ UNCHANGED <<g_streams, pipe>>

(* The reader is counted out again; the pipe is not released here.  What a  *)
(* step does with a pipe that was freed under it is not modelled: the step  *)
(* is not taken.                                                            *)
RopenUndo(t) ==
    /\ In(t, "undo")
    /\ pipe[call[t].pipe] # NoPipe
    /\ pipe' = [pipe EXCEPT ![call[t].pipe].readers = IF @ > 0 THEN @ - 1 ELSE @]
    /\ Returns(t)
    /\ UNCHANGED <<g_streams, used, handles>>

-----------------------------------------------------------------------------
(* Mutant: a reader's close does not count it out. *)
MutClosedReaderStays(h) ==
    IF h.writer THEN [pipe[h.pipe] EXCEPT !.writer_open = FALSE] ELSE pipe[h.pipe]

(* What the section of tstream_close() makes of the pipe of handle h. *)
Closed(h) ==
    IF h.writer THEN [pipe[h.pipe] EXCEPT !.writer_open = FALSE]
    ELSE [pipe[h.pipe] EXCEPT !.readers = IF @ > 0 THEN @ - 1 ELSE @]

(* The handle was counted in its pipe: otherwise the close returns -1.      *)
Counted(h) == IF h.writer THEN pipe[h.pipe].writer_open ELSE pipe[h.pipe].readers > 0

(* Mutant: the writer's close releases the pipe whoever reads it. *)
MutLastOut(h) == Counted(h) /\ ~Closed(h).writer_open

(* The close of h takes the pipe out of use. *)
LastOut(h) == Counted(h) /\ ~Closed(h).writer_open /\ Closed(h).readers = 0

(* tstream_close(): the section, after which the handle is of no use to     *)
(* its holder.                                                              *)
tstream_close(t, h) ==
    /\ In(t, "idle")
    /\ h \in handles[t]
    /\ pipe[h.pipe] # NoPipe
    /\ handles' = [handles EXCEPT ![t] = @ \ {h}]
    /\ pipe' = [pipe EXCEPT ![h.pipe] = Closed(h)]
    /\ IF LastOut(h) THEN tstream_unlink_pipe(h.pipe) ELSE UNCHANGED g_streams
    /\ call' = [call EXCEPT ![t] = [at |-> "destroy", handle |-> h.block,
                                    pipe |-> h.pipe, release |-> LastOut(h)]]
    /\ UNCHANGED used

(* Mutant: the pipe is not freed after its last handle. *)
MutDestroyKeepsPipe(t) ==
    /\ In(t, "destroy")
    /\ Return(call[t].handle)
    /\ Returns(t)
    /\ UNCHANGED <<g_streams, pipe, handles>>

(* tstream_destroy_handle(); the pipe follows if nobody uses it any more.   *)
DestroyHandle(t) ==
    /\ In(t, "destroy")
    /\ Return(call[t].handle)
    /\ IF call[t].release THEN call' = [call EXCEPT ![t] = [at |-> "drop", pipe |-> call[t].pipe]]
                          ELSE Returns(t)
    /\ UNCHANGED <<g_streams, pipe, handles>>

(* A thread ends.  Its handles are no thread's, and stay open: the blocks   *)
(* of a stream belong to the kernel, not to the thread.                     *)
ThreadEnds(t) ==
    /\ In(t, "idle")
    /\ call' = [call EXCEPT ![t] = Ended]
    /\ UNCHANGED <<g_streams, pipe, used, handles>>

-----------------------------------------------------------------------------
Next ==
    \E t \in Threads :
        \/ \E dest \in Threads : tstream_wopen(t, dest)
        \/ WopenAlloc(t)
        \/ WopenLink(t)
        \/ WopenHandle(t)
        \/ WopenUnlink(t)
        \/ FreePipe(t)
        \/ tstream_ropen(t)
        \/ RopenHandle(t)
        \/ RopenUndo(t)
        \/ \E h \in handles[t] : tstream_close(t, h)
        \/ DestroyHandle(t)
        \/ ThreadEnds(t)

Spec == Init /\ [][Next]_vars

-----------------------------------------------------------------------------
Pipes == [source : Threads, dest : Threads, readers : Nat, writer_open : BOOLEAN]
Handles == [block : Blocks, pipe : Blocks, writer : BOOLEAN]
Calls ==
    {Idle, Ended} \cup [at : {"alloc"}, dest : Threads]
    \cup [at : {"link", "handle", "unlink", "drop", "reader", "undo"}, pipe : Blocks]
    \cup [at : {"destroy"}, handle : Blocks, pipe : Blocks, release : BOOLEAN]

TypeOK ==
    /\ g_streams \in Seq(Blocks)
    /\ pipe \in [Blocks -> Pipes \cup {NoPipe}]
    /\ used \subseteq Blocks
    /\ handles \in [Threads -> SUBSET Handles]
    /\ call \in [Threads -> Calls]

(* A thread is the reader of one pipe at most, whoever opens streams to it  *)
(* at the same time: wopen searches the list, lets other threads run and    *)
(* searches it again.                                                       *)
OneStreamPerReader ==
    \A m, n \in DOMAIN g_streams :
        pipe[g_streams[m]].dest = pipe[g_streams[n]].dest => m = n

AllHandles == UNION {handles[t] : t \in Threads}
ReaderHandles(b) == {h \in AllHandles : h.pipe = b /\ ~h.writer}
WriterHandles(b) == {h \in AllHandles : h.pipe = b /\ h.writer}
OpeningReaders(b) == {t \in Threads : call[t].at \in {"reader", "undo"} /\ call[t].pipe = b}
OpeningWriters(b) == {t \in Threads : call[t].at \in {"handle", "unlink"} /\ call[t].pipe = b}

(* What a linked pipe counts is what is there: its readers, and one writer  *)
(* as long as it is open for writing.                                       *)
CountsMatch ==
    \A b \in Linked :
        /\ pipe[b].readers = Cardinality(ReaderHandles(b)) + Cardinality(OpeningReaders(b))
        /\ Cardinality(WriterHandles(b)) + Cardinality(OpeningWriters(b)) =
               IF pipe[b].writer_open THEN 1 ELSE 0

(* A handle leads to a linked pipe, whatever the other handles of the pipe  *)
(* do, and the pipe is to or from the thread that holds the handle.         *)
HandlesLead ==
    \A t \in Threads : \A h \in handles[t] :
        /\ h.pipe \in Linked
        /\ t = IF h.writer THEN pipe[h.pipe].source ELSE pipe[h.pipe].dest

(* No block is lost: one handed out is a handle, a pipe that a handle or an *)
(* open call uses, or in the hands of a call that will return it.           *)
BlocksAccounted ==
    \A b \in used :
        \/ \E h \in AllHandles : h.block = b
        \/ /\ b \in Linked
           /\ \/ ReaderHandles(b) \cup WriterHandles(b) # {}
              \/ OpeningReaders(b) \cup OpeningWriters(b) # {}
        \/ \E t \in Threads : call[t].at \in {"link", "drop"} /\ call[t].pipe = b
        \/ \E t \in Threads : /\ call[t].at = "destroy"
                              /\ b = call[t].handle \/ (b = call[t].pipe /\ call[t].release)

(* "ropen only opens a stream if the sending thread has opened a writing    *)
(* stream" (ktstream.h 15): the stream a reader has open is not one whose   *)
(* opening by the sender failed, which frees the pipe.                      *)
ReaderHasStream ==
    \A t \in Threads : \A h \in handles[t] : ~h.writer => pipe[h.pipe] # NoPipe

(* The streams as they show in the linked pipes: a wopen takes effect where *)
(* it links its pipe, a ropen where it counts its reader, a close in its    *)
(* section, and a failed open takes its effect back.                        *)
WritersSeen ==
    [d \in Threads |->
        {pipe[b].source : b \in {c \in Linked : pipe[c].dest = d /\ pipe[c].writer_open}}]
ReadersSeen ==
    [d \in Threads |-> IF Matches(d) = {} THEN 0 ELSE pipe[tstream_find_pipe(d)].readers]
StreamsSeen == INSTANCE Streams WITH writers <- WritersSeen, readers <- ReadersSeen

(* Every step of a call is a step of what the streams promise, or changes   *)
(* nothing of it: no thread is ever a second writer, opens a stream that    *)
(* nobody has opened for writing, or finds one left over from the last use. *)
ImplementsStreams == StreamsSeen!Spec
=============================================================================
