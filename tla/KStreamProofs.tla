---------------------------- MODULE KStreamProofs ----------------------------
(***************************************************************************)
(* The streams of module KStream, for any number of threads, blocks and    *)
(* handles, with and without the tick, as long as a call that fails undoes  *)
(* what it did before another overtakes it.                                 *)
(***************************************************************************)
EXTENDS KStream, FiniteSetTheorems, SequenceTheorems, TLAPS

(* The blocks outside the list that a call has in its hands.                *)
Owned(t) ==
    IF call[t].at \in {"link", "drop"} THEN {call[t].pipe}
    ELSE IF call[t].at = "destroy"
         THEN {call[t].handle} \cup (IF call[t].release THEN {call[t].pipe} ELSE {})
         ELSE {}

Creates(t, b) == call[t].at \in {"handle", "unlink"} /\ call[t].pipe = b
Opens(t, b) == call[t].at \in {"reader", "undo"} /\ call[t].pipe = b
Reads(t, b) == {h \in handles[t] : h.pipe = b /\ ~h.writer}
Writes(t, b) == {h \in handles[t] : h.pipe = b /\ h.writer}

(* The list holds used blocks with pipes, each once, for different readers. *)
ListSound ==
    /\ \A m, n \in DOMAIN g_streams : g_streams[m] = g_streams[n] => m = n
    /\ \A b \in Linked : b \in used /\ pipe[b] \in Pipes
    /\ \A b, c \in Linked : pipe[b].dest = pipe[c].dest => b = c

(* A handle leads to a pipe of its thread and has a block of its own.       *)
HandlesSound ==
    \A t \in Threads :
        /\ IsFiniteSet(handles[t])
        /\ \A h \in handles[t] :
              /\ h.pipe \in Linked
              /\ t = IF h.writer THEN pipe[h.pipe].source ELSE pipe[h.pipe].dest
              /\ h.block \in used /\ h.block \notin Linked
              /\ \A u \in Threads : \A k \in handles[u] : h.block = k.block => t = u /\ h = k

(* What a call owns is nobody else's; the pipe it works on is its own.      *)
OwnedApart ==
    \A t \in Threads :
        /\ \A b \in Owned(t) : b \in used /\ b \notin Linked
        /\ \A u \in Threads : \A b \in Owned(t) : b \in Owned(u) => t = u
        /\ \A u \in Threads : \A h \in handles[u] : h.block \notin Owned(t)
        /\ call[t].at = "destroy" /\ call[t].release => call[t].handle # call[t].pipe

CallsSound ==
    \A t \in Threads :
        /\ call[t].at = "link" => /\ pipe[call[t].pipe] \in Pipes
                                  /\ pipe[call[t].pipe].source = t
                                  /\ pipe[call[t].pipe].readers = 0
                                  /\ pipe[call[t].pipe].writer_open
        /\ call[t].at \in {"handle", "unlink"} => /\ call[t].pipe \in Linked
                                                  /\ pipe[call[t].pipe].source = t
                                                  /\ pipe[call[t].pipe].writer_open
        /\ call[t].at = "unlink" => pipe[call[t].pipe].readers = 0
        /\ call[t].at \in {"reader", "undo"} => /\ call[t].pipe \in Linked
                                                /\ pipe[call[t].pipe].dest = t
        /\ call[t].at = "undo" => pipe[call[t].pipe].writer_open

(* The writer of a linked pipe is one handle or one call while it is open.  *)
WriterOf(b, s) ==
    /\ pipe[b].writer_open <=> Creates(s, b) \/ Writes(s, b) # {}
    /\ Creates(s, b) => Writes(s, b) = {}
    /\ \A h, k \in Writes(s, b) : h = k
WriterCounted == \A b \in Linked : WriterOf(b, pipe[b].source)

(* Its readers are handles and at most one call of one thread.              *)
ReadersOf(b, d) ==
    pipe[b].readers = Cardinality(Reads(d, b)) + (IF Opens(d, b) THEN 1 ELSE 0)
ReadersCounted == \A b \in Linked : ReadersOf(b, pipe[b].dest)

LinkedInUse == \A b \in Linked : pipe[b].writer_open \/ pipe[b].readers > 0

Accounted ==
    \A b \in used :
        \/ b \in Linked
        \/ \E t \in Threads : b \in Owned(t)
        \/ \E t \in Threads : \E h \in handles[t] : h.block = b

StreamsInv ==
    /\ TypeOK /\ ListSound /\ HandlesSound /\ OwnedApart /\ CallsSound
    /\ WriterCounted /\ ReadersCounted /\ LinkedInUse /\ Accounted

-----------------------------------------------------------------------------
(* The list.                                                                *)

NoRepeats(s) == \A m, n \in DOMAIN s : s[m] = s[n] => m = n

LEMMA LinkEffect ==
    ASSUME NEW s \in Seq(Blocks), NoRepeats(s), NEW b \in Blocks \ ToSet(s)
    PROVE  LET r == <<b>> \o s
           IN r \in Seq(Blocks) /\ ToSet(r) = ToSet(s) \cup {b} /\ NoRepeats(r)
<1> DEFINE r == <<b>> \o s
<1>1. /\ r \in Seq(Blocks)
      /\ Len(r) = Len(s) + 1 /\ Len(s) \in Nat
      /\ \A i \in 1 .. Len(r) : r[i] = IF i = 1 THEN b ELSE s[i - 1]
    BY ConcatProperties
<1>2. DOMAIN r = 1 .. Len(s) + 1 /\ DOMAIN s = 1 .. Len(s)
    BY <1>1
<1>3. ToSet(r) = ToSet(s) \cup {b}
    <2>1. ASSUME NEW i \in DOMAIN s PROVE s[i] \in ToSet(r)
        <3>1. i + 1 \in DOMAIN r /\ r[i + 1] = s[i]
            BY <1>1, <1>2
        <3> QED BY <3>1 DEF ToSet
    <2>2. b \in ToSet(r)
        <3>1. 1 \in DOMAIN r /\ r[1] = b
            BY <1>1, <1>2
        <3> QED BY <3>1 DEF ToSet
    <2>3. ASSUME NEW i \in DOMAIN r PROVE r[i] \in ToSet(s) \cup {b}
        BY <1>1, <1>2 DEF ToSet
    <2> QED BY <2>1, <2>2, <2>3 DEF ToSet
<1>4. NoRepeats(r)
    <2> SUFFICES ASSUME NEW m \in DOMAIN r, NEW n \in DOMAIN r, r[m] = r[n] PROVE m = n
        BY DEF NoRepeats
    <2>1. \A i \in DOMAIN s : s[i] # b
        BY DEF ToSet
    <2>2. CASE m = 1 \/ n = 1
        BY <1>1, <1>2, <2>1, <2>2
    <2>3. CASE m # 1 /\ n # 1
        <3>1. m - 1 \in DOMAIN s /\ n - 1 \in DOMAIN s /\ s[m - 1] = s[n - 1]
            BY <1>1, <1>2, <2>3
        <3>2. m - 1 = n - 1
            BY <3>1 DEF NoRepeats
        <3> QED BY <3>2, <1>2
    <2> QED BY <2>2, <2>3
<1> QED BY <1>1, <1>3, <1>4

LEMMA RemoveEffect ==
    ASSUME NEW s \in Seq(Blocks), NoRepeats(s), NEW k \in DOMAIN s
    PROVE  LET r == RemoveAt(s, k)
           IN r \in Seq(Blocks) /\ ToSet(r) = ToSet(s) \ {s[k]} /\ NoRepeats(r)
<1> DEFINE r == RemoveAt(s, k)
           n == Len(s)
<1>1. n \in Nat /\ k \in 1 .. n /\ DOMAIN s = 1 .. n
    OBVIOUS
<1>2. /\ SubSeq(s, 1, k - 1) \in Seq(Blocks) /\ Len(SubSeq(s, 1, k - 1)) = k - 1
      /\ \A i \in 1 .. k - 1 : SubSeq(s, 1, k - 1)[i] = s[i]
    BY <1>1, SubSeqProperties
<1>3. /\ SubSeq(s, k + 1, n) \in Seq(Blocks) /\ Len(SubSeq(s, k + 1, n)) = n - k
      /\ \A i \in 1 .. n - k : SubSeq(s, k + 1, n)[i] = s[k + i]
    BY <1>1, SubSeqProperties
<1>4. /\ r \in Seq(Blocks) /\ Len(r) = n - 1
      /\ \A i \in 1 .. n - 1 : r[i] = IF i < k THEN s[i] ELSE s[i + 1]
    <2> DEFINE p == SubSeq(s, 1, k - 1)
               q == SubSeq(s, k + 1, n)
    <2>1. r = p \o q
        BY DEF RemoveAt
    <2>2. p \in Seq(Blocks) /\ q \in Seq(Blocks) /\ Len(p) = k - 1 /\ Len(q) = n - k
        BY <1>2, <1>3
    <2>3. /\ \A i \in 1 .. k - 1 : p[i] = s[i]
          /\ \A i \in 1 .. n - k : q[i] = s[k + i]
        BY <1>2, <1>3
    <2> HIDE DEF p, q, r
    <2>4. /\ p \o q \in Seq(Blocks) /\ Len(p \o q) = Len(p) + Len(q)
          /\ \A i \in 1 .. Len(p) + Len(q) :
                (p \o q)[i] = IF i <= Len(p) THEN p[i] ELSE q[i - Len(p)]
        BY <2>2, ConcatProperties
    <2>5. Len(p) + Len(q) = n - 1
        BY <1>1, <2>2
    <2>6. ASSUME NEW i \in 1 .. n - 1 PROVE r[i] = IF i < k THEN s[i] ELSE s[i + 1]
        <3>1. r[i] = IF i <= k - 1 THEN p[i] ELSE q[i - (k - 1)]
            BY <2>1, <2>2, <2>4, <2>5
        <3>2. CASE i < k
            BY <1>1, <2>3, <3>1, <3>2
        <3>3. CASE ~(i < k)
            <4>1. i - (k - 1) \in 1 .. n - k /\ k + (i - (k - 1)) = i + 1
                BY <1>1, <3>3
            <4>2. q[i - (k - 1)] = s[i + 1]
                BY <2>3, <4>1
            <4> QED BY <1>1, <3>1, <3>3, <4>2
        <3> QED BY <3>2, <3>3
    <2> QED BY <2>1, <2>4, <2>5, <2>6
<1> HIDE DEF r
<1>5. DOMAIN r = 1 .. n - 1
    BY <1>4, <1>1
<1>6. \A i \in DOMAIN s : s[i] = s[k] => i = k
    BY DEF NoRepeats
<1>7. ToSet(r) = ToSet(s) \ {s[k]}
    <2>1. ASSUME NEW i \in DOMAIN r PROVE r[i] \in ToSet(s) \ {s[k]}
        <3>1. CASE i < k
            BY <1>1, <1>4, <1>5, <1>6, <3>1 DEF ToSet
        <3>2. CASE ~(i < k)
            BY <1>1, <1>4, <1>5, <1>6, <3>2 DEF ToSet
        <3> QED BY <3>1, <3>2
    <2>2. ASSUME NEW i \in DOMAIN s, i # k PROVE s[i] \in ToSet(r)
        <3>1. CASE i < k
            <4>1. i \in DOMAIN r /\ r[i] = s[i]
                BY <1>1, <1>4, <1>5, <3>1
            <4> QED BY <4>1 DEF ToSet
        <3>2. CASE i > k
            <4>1. i - 1 \in DOMAIN r /\ r[i - 1] = s[i]
                BY <1>1, <1>4, <1>5, <3>2
            <4> QED BY <4>1 DEF ToSet
        <3> QED BY <1>1, <2>2, <3>1, <3>2
    <2>3. ToSet(r) \subseteq ToSet(s) \ {s[k]}
        BY <2>1 DEF ToSet
    <2>4. ToSet(s) \ {s[k]} \subseteq ToSet(r)
        BY <2>2 DEF ToSet
    <2> QED BY <2>3, <2>4
<1>8. NoRepeats(r)
    <2> SUFFICES ASSUME NEW i \in DOMAIN r, NEW j \in DOMAIN r, r[i] = r[j] PROVE i = j
        BY DEF NoRepeats
    <2> DEFINE place(x) == IF x < k THEN x ELSE x + 1
    <2>1. /\ place(i) \in DOMAIN s /\ s[place(i)] = r[i]
          /\ place(j) \in DOMAIN s /\ s[place(j)] = r[j]
        BY <1>1, <1>4, <1>5
    <2>2. place(i) = place(j)
        BY <2>1 DEF NoRepeats
    <2> QED BY <2>2, <1>1, <1>5
<1> QED BY <1>4, <1>7, <1>8 DEF r

(* What tstream_unlink_pipe() leaves of the list.                           *)
LEMMA UnlinkEffect ==
    ASSUME g_streams \in Seq(Blocks), NoRepeats(g_streams), NEW b \in Linked,
           tstream_unlink_pipe(b)
    PROVE  g_streams' \in Seq(Blocks) /\ Linked' = Linked \ {b} /\ NoRepeats(g_streams')
<1>1. PICK k \in DOMAIN g_streams : g_streams[k] = b
    BY DEF Linked, ToSet
<1>2. DOMAIN g_streams = 1 .. Len(g_streams) /\ Len(g_streams) \in Nat /\ k \in Nat
    <2>1. DOMAIN g_streams = 1 .. Len(g_streams) /\ Len(g_streams) \in Nat
        OBVIOUS
    <2> QED BY <2>1
<1>3. Places(b) = {k}
    BY <1>1 DEF Places, NoRepeats
<1>4. Min(Places(b)) = k
    BY <1>2, <1>3 DEF Min
<1>5. g_streams' = RemoveAt(g_streams, k)
    BY <1>3, <1>4 DEF tstream_unlink_pipe
<1> QED BY <1>1, <1>5, RemoveEffect DEF Linked

(* tstream_find_pipe() finds the pipe of the reader, if it is linked.       *)
LEMMA FindEffect ==
    ASSUME g_streams \in Seq(Blocks), ListSound, NEW t, Matches(t) # {}
    PROVE  tstream_find_pipe(t) \in Linked /\ pipe[tstream_find_pipe(t)].dest = t
<1>1. PICK k \in Matches(t) : TRUE
    OBVIOUS
<1>2. k \in DOMAIN g_streams /\ pipe[g_streams[k]].dest = t
    BY <1>1 DEF Matches
<1>3. k \in Nat
    <2>1. DOMAIN g_streams = 1 .. Len(g_streams)
        OBVIOUS
    <2> QED BY <1>2, <2>1
<1>4. Matches(t) = {k}
    <2> SUFFICES ASSUME NEW j \in Matches(t) PROVE j = k
        BY <1>1
    <2>1. j \in DOMAIN g_streams /\ pipe[g_streams[j]].dest = t
        BY DEF Matches
    <2>2. g_streams[j] \in Linked /\ g_streams[k] \in Linked
        BY <1>2, <2>1 DEF Linked, ToSet
    <2> QED BY <1>2, <2>1, <2>2 DEF ListSound
<1>5. Min(Matches(t)) = k
    BY <1>3, <1>4 DEF Min
<1> QED BY <1>2, <1>5 DEF tstream_find_pipe, Linked, ToSet

(* No pipe to dest is linked when the list has no match.                    *)
LEMMA NoMatch ==
    ASSUME NEW d, Matches(d) = {}
    PROVE  \A b \in Linked : pipe[b].dest # d
BY DEF Matches, Linked, ToSet

-----------------------------------------------------------------------------
(* The state of the calls.                                                  *)

LEMMA CallShape ==
    ASSUME TypeOK, NEW t \in Threads
    PROVE  /\ call[t].at = "alloc" => call[t].dest \in Threads
           /\ call[t].at \in {"link", "handle", "unlink", "drop", "reader", "undo"} =>
                  call[t].pipe \in Blocks
           /\ call[t].at = "destroy" => /\ call[t].handle \in Blocks /\ call[t].pipe \in Blocks
                                        /\ call[t].release \in BOOLEAN
BY DEF TypeOK, Calls, Idle, Ended

(* A step changes the call of the thread that takes it, and no other.       *)
LEMMA OneCall ==
    ASSUME TypeOK, NEW t \in Threads, NEW r, call' = [call EXCEPT ![t] = r]
    PROVE  /\ call'[t] = r
           /\ \A u \in Threads \ {t} :
                 /\ call'[u] = call[u]
                 /\ Owned(u)' = Owned(u)
                 /\ \A b : (Creates(u, b)' <=> Creates(u, b)) /\ (Opens(u, b)' <=> Opens(u, b))
BY DEF TypeOK, Owned, Creates, Opens

(* The calls that work on a linked pipe.                                    *)
LEMMA CreatorIs ==
    ASSUME CallsSound, NEW t \in Threads, NEW b, Creates(t, b)
    PROVE  b \in Linked /\ pipe[b].source = t /\ pipe[b].writer_open
BY DEF CallsSound, Creates

LEMMA OpenerIs ==
    ASSUME CallsSound, NEW t \in Threads, NEW b, Opens(t, b)
    PROVE  b \in Linked /\ pipe[b].dest = t
BY DEF CallsSound, Opens

LEMMA LinkedPipe ==
    ASSUME ListSound, NEW b \in Linked
    PROVE  pipe[b].source \in Threads /\ pipe[b].dest \in Threads /\ pipe[b].readers \in Nat
           /\ pipe[b].writer_open \in BOOLEAN
BY DEF ListSound, Pipes

(* A pipe stays counted by a step that changes neither what it counts nor   *)
(* who uses it.                                                             *)
LEMMA WriterKept ==
    ASSUME StreamsInv, NEW b \in Linked, NEW s, s = pipe[b].source,
           pipe'[b].source = s, pipe'[b].writer_open = pipe[b].writer_open,
           Creates(s, b)' <=> Creates(s, b), Writes(s, b)' = Writes(s, b)
    PROVE  WriterOf(b, pipe[b].source)'
BY DEF StreamsInv, WriterCounted, WriterOf

LEMMA ReadersKept ==
    ASSUME StreamsInv, NEW b \in Linked, NEW d, d = pipe[b].dest,
           pipe'[b].dest = d, pipe'[b].readers = pipe[b].readers,
           Opens(d, b)' <=> Opens(d, b), Reads(d, b)' = Reads(d, b)
    PROVE  ReadersOf(b, pipe[b].dest)'
BY DEF StreamsInv, ReadersCounted, ReadersOf

(* A step that only moves a call between places that own nothing and work   *)
(* on nothing.                                                              *)
Detached(r) == r.at \in {"idle", "ended", "alloc"}

LEMMA DetachedStep ==
    ASSUME StreamsInv, NEW t \in Threads, NEW r \in Calls,
           Detached(call[t]), Detached(r), call' = [call EXCEPT ![t] = r],
           UNCHANGED <<g_streams, pipe, used, handles>>
    PROVE  StreamsInv'
<1>1. /\ Linked' = Linked
      /\ \A u \in Threads : Owned(u)' = Owned(u)
      /\ \A u \in Threads : \A b : /\ Creates(u, b)' <=> Creates(u, b)
                                   /\ Opens(u, b)' <=> Opens(u, b)
      /\ \A u \in Threads : \A b : Reads(u, b)' = Reads(u, b) /\ Writes(u, b)' = Writes(u, b)
      /\ \A u \in Threads : call'[u] = call[u] \/ (Detached(call[u]) /\ Detached(call'[u]))
    <2>1. /\ call'[t] = r
          /\ \A u \in Threads \ {t} :
                /\ call'[u] = call[u]
                /\ Owned(u)' = Owned(u)
                /\ \A b : (Creates(u, b)' <=> Creates(u, b)) /\ (Opens(u, b)' <=> Opens(u, b))
        BY OneCall DEF StreamsInv
    <2>2. Owned(t) = {} /\ Owned(t)' = {}
        BY <2>1 DEF Owned, Detached
    <2>3. \A b : ~Creates(t, b) /\ ~Creates(t, b)' /\ ~Opens(t, b) /\ ~Opens(t, b)'
        BY <2>1 DEF Creates, Opens, Detached
    <2> QED BY <2>1, <2>2, <2>3 DEF Linked, Reads, Writes
<1>2. TypeOK'
    BY DEF StreamsInv, TypeOK
<1>3. ListSound' /\ HandlesSound' /\ LinkedInUse' /\ Accounted'
    BY <1>1 DEF StreamsInv, ListSound, HandlesSound, LinkedInUse, Accounted
<1>4. OwnedApart' /\ CallsSound'
    BY <1>1 DEF StreamsInv, OwnedApart, CallsSound, Detached
<1>5. WriterCounted' /\ ReadersCounted'
    <2> SUFFICES ASSUME NEW b \in Linked
                 PROVE  WriterOf(b, pipe[b].source)' /\ ReadersOf(b, pipe[b].dest)'
        BY <1>1 DEF WriterCounted, ReadersCounted
    <2>1. pipe[b].source \in Threads /\ pipe[b].dest \in Threads
        BY LinkedPipe DEF StreamsInv
    <2> QED BY <1>1, <2>1, WriterKept, ReadersKept
<1> QED BY <1>2, <1>3, <1>4, <1>5 DEF StreamsInv

LEMMA CallBegins ==
    ASSUME StreamsInv, NEW t \in Threads, NEW dest \in Threads,
           tstream_wopen(t, dest) \/ ThreadEnds(t)
    PROVE  StreamsInv'
<1>1. Detached(call[t])
    BY DEF tstream_wopen, ThreadEnds, In, Detached
<1>2. CASE tstream_wopen(t, dest)
    <2>1. [at |-> "alloc", dest |-> dest] \in Calls
        BY DEF Calls
    <2> QED BY <1>1, <1>2, <2>1, DetachedStep DEF tstream_wopen, Detached
<1>3. CASE ThreadEnds(t)
    <2>1. Ended \in Calls
        BY DEF Calls
    <2> QED BY <1>1, <1>3, <2>1, DetachedStep DEF ThreadEnds, Detached, Ended
<1> QED BY <1>2, <1>3

-----------------------------------------------------------------------------
(* Steps that leave the list, its pipes and the handles alone: a call takes *)
(* a block, gives one back, or passes from one to another.                  *)
Unattached(r) == r.at \notin {"handle", "unlink", "reader", "undo"}

LEMMA OffListStep ==
    ASSUME StreamsInv, NEW t \in Threads, NEW r, call' = [call EXCEPT ![t] = r],
           UNCHANGED <<g_streams, handles>>,
           Unattached(call[t]), Unattached(r),
           \A b \in Linked : pipe'[b] = pipe[b] /\ b \in used',
           \A u \in Threads : \A h \in handles[u] : h.block \in used',
           \A u \in Threads \ {t} : \A b \in Owned(u) : pipe'[b] = pipe[b],
           r.at = "link" => /\ pipe'[r.pipe] \in Pipes /\ pipe'[r.pipe].source = t
                            /\ pipe'[r.pipe].readers = 0 /\ pipe'[r.pipe].writer_open
    PROVE  /\ ListSound' /\ HandlesSound' /\ CallsSound'
           /\ WriterCounted' /\ ReadersCounted' /\ LinkedInUse'
<1>1. /\ call'[t] = r
      /\ \A u \in Threads \ {t} :
            /\ call'[u] = call[u]
            /\ \A b : (Creates(u, b)' <=> Creates(u, b)) /\ (Opens(u, b)' <=> Opens(u, b))
    BY OneCall DEF StreamsInv
<1>2. Linked' = Linked
    BY DEF Linked
<1>3. \A u \in Threads : \A b : Reads(u, b)' = Reads(u, b) /\ Writes(u, b)' = Writes(u, b)
    BY DEF Reads, Writes
<1>4. \A u \in Threads : \A b : (Creates(u, b)' <=> Creates(u, b)) /\ (Opens(u, b)' <=> Opens(u, b))
    BY <1>1 DEF Creates, Opens, Unattached
<1>5. ListSound' /\ HandlesSound' /\ LinkedInUse'
    BY <1>2 DEF StreamsInv, ListSound, HandlesSound, LinkedInUse
<1>6. CallsSound'
    <2> SUFFICES ASSUME NEW u \in Threads
                 PROVE  /\ call'[u].at = "link" => /\ pipe'[call'[u].pipe] \in Pipes
                                                   /\ pipe'[call'[u].pipe].source = u
                                                   /\ pipe'[call'[u].pipe].readers = 0
                                                   /\ pipe'[call'[u].pipe].writer_open
                        /\ call'[u].at \in {"handle", "unlink"} =>
                               /\ call'[u].pipe \in Linked'
                               /\ pipe'[call'[u].pipe].source = u
                               /\ pipe'[call'[u].pipe].writer_open
                        /\ call'[u].at = "unlink" => pipe'[call'[u].pipe].readers = 0
                        /\ call'[u].at \in {"reader", "undo"} => /\ call'[u].pipe \in Linked'
                                                                 /\ pipe'[call'[u].pipe].dest = u
                        /\ call'[u].at = "undo" => pipe'[call'[u].pipe].writer_open
        BY DEF CallsSound
    <2>1. CASE u = t
        BY <1>1, <2>1 DEF Unattached
    <2>2. CASE u # t
        <3>1. call'[u] = call[u]
            BY <1>1, <2>2
        <3>2. call[u].at = "link" => call[u].pipe \in Owned(u)
            BY DEF Owned
        <3> QED BY <1>2, <2>2, <3>1, <3>2 DEF StreamsInv, CallsSound
    <2> QED BY <2>1, <2>2
<1>7. WriterCounted' /\ ReadersCounted'
    <2> SUFFICES ASSUME NEW b \in Linked
                 PROVE  WriterOf(b, pipe[b].source)' /\ ReadersOf(b, pipe[b].dest)'
        BY <1>2 DEF WriterCounted, ReadersCounted
    <2>1. pipe[b].source \in Threads /\ pipe[b].dest \in Threads
        BY LinkedPipe DEF StreamsInv
    <2> QED BY <1>3, <1>4, <2>1, WriterKept, ReadersKept
<1> QED BY <1>5, <1>6, <1>7

(* A block the allocator hands out is nobody's.                             *)
LEMMA FreshBlock ==
    ASSUME StreamsInv, NEW b \in Blocks \ used
    PROVE  /\ b \notin Linked
           /\ \A u \in Threads : b \notin Owned(u)
           /\ \A u \in Threads : \A h \in handles[u] : h.block # b
BY DEF StreamsInv, ListSound, OwnedApart, HandlesSound

LEMMA AllocStep ==
    ASSUME StreamsInv, NEW t \in Threads, WopenAlloc(t)
    PROVE  StreamsInv'
<1>1. CASE Exhausted /\ Returns(t) /\ UNCHANGED <<pipe, used>>
    <2>1. Idle \in Calls /\ Detached(Idle) /\ Detached(call[t])
        BY DEF Calls, Detached, Idle, WopenAlloc, In
    <2> QED BY <1>1, <2>1, DetachedStep DEF WopenAlloc, Returns
<1>2. ASSUME NEW b \in Blocks, Consume(b),
             pipe' = [pipe EXCEPT ![b] = [source |-> t, dest |-> call[t].dest,
                                          readers |-> 0, writer_open |-> TRUE]],
             call' = [call EXCEPT ![t] = [at |-> "link", pipe |-> b]]
      PROVE  StreamsInv'
    <2> DEFINE p == [source |-> t, dest |-> call[t].dest, readers |-> 0, writer_open |-> TRUE]
               r == [at |-> "link", pipe |-> b]
    <2>1. b \in Blocks \ used /\ used' = used \cup {b}
        BY <1>2 DEF Consume
    <2>2. call[t].at = "alloc" /\ call[t].dest \in Threads /\ UNCHANGED <<g_streams, handles>>
        BY CallShape DEF WopenAlloc, In, StreamsInv
    <2>3. p \in Pipes
        BY <2>2 DEF Pipes
    <2>4. pipe'[b] = p /\ \A c \in Blocks : c # b => pipe'[c] = pipe[c]
        BY <1>2 DEF StreamsInv, TypeOK
    <2>5. Owned(t) = {} /\ Owned(t)' = {b} /\ Linked' = Linked
          /\ call'[t] = r /\ \A u \in Threads \ {t} : Owned(u)' = Owned(u) /\ call'[u] = call[u]
        <3> HIDE DEF r
        <3>0. call' = [call EXCEPT ![t] = r] /\ TypeOK
            BY <1>2 DEF r, StreamsInv
        <3>1. call'[t] = r /\ \A u \in Threads \ {t} : Owned(u)' = Owned(u) /\ call'[u] = call[u]
            BY <3>0, OneCall
        <3> USE DEF r
        <3> QED BY <2>2, <3>1 DEF Owned, Linked
    <2>6. \A u \in Threads : Owned(u) \subseteq used
        BY DEF StreamsInv, OwnedApart
    <2>7. TypeOK'
        <3>1. r \in Calls
            BY DEF Calls
        <3> QED BY <1>2, <2>1, <2>2, <2>3, <3>1 DEF StreamsInv, TypeOK
    <2>8. Linked \subseteq used /\ used \subseteq Blocks
          /\ \A u \in Threads : \A h \in handles[u] : h.block \in used
        BY DEF StreamsInv, TypeOK, ListSound, HandlesSound
    <2>9. /\ ListSound' /\ HandlesSound' /\ CallsSound'
          /\ WriterCounted' /\ ReadersCounted' /\ LinkedInUse'
        <3>1. \A c \in Linked : pipe'[c] = pipe[c] /\ c \in used'
            BY <2>1, <2>4, <2>8
        <3>2. \A u \in Threads \ {t} : \A c \in Owned(u) : pipe'[c] = pipe[c]
            BY <2>1, <2>4, <2>6, <2>8
        <3>3. \A u \in Threads : \A h \in handles[u] : h.block \in used'
            BY <2>1, <2>8
        <3>4. Unattached(call[t]) /\ Unattached(r)
            BY <2>2 DEF Unattached
        <3>5. /\ pipe'[r.pipe] \in Pipes /\ pipe'[r.pipe].source = t
              /\ pipe'[r.pipe].readers = 0 /\ pipe'[r.pipe].writer_open
            BY <2>3, <2>4
        <3> QED BY <1>2, <2>2, <3>1, <3>2, <3>3, <3>4, <3>5, OffListStep
    <2>10. OwnedApart'
        BY <2>1, <2>2, <2>5, FreshBlock DEF StreamsInv, OwnedApart
    <2>11. Accounted'
        BY <2>1, <2>2, <2>5 DEF StreamsInv, Accounted
    <2> QED BY <2>7, <2>9, <2>10, <2>11 DEF StreamsInv
<1> QED BY <1>1, <1>2 DEF WopenAlloc

-----------------------------------------------------------------------------
(* The call goes on to another place with its pipe, or back to idle.        *)
LEMMA GotoStep ==
    ASSUME TypeOK, NEW t \in Threads, NEW at, Goto(t, at)
    PROVE  /\ call'[t].at = at /\ call'[t].pipe = call[t].pipe
           /\ \A u \in Threads \ {t} :
                 /\ call'[u] = call[u]
                 /\ Owned(u)' = Owned(u)
                 /\ \A b : (Creates(u, b)' <=> Creates(u, b)) /\ (Opens(u, b)' <=> Opens(u, b))
<1> DEFINE r == [at |-> at, pipe |-> call[t].pipe]
<1>1. r.at = at /\ r.pipe = call[t].pipe
    OBVIOUS
<1>2. call' = [call EXCEPT ![t] = r]
    BY DEF Goto
<1> HIDE DEF r
<1> QED BY <1>1, <1>2, OneCall

LEMMA GotoType ==
    ASSUME TypeOK, NEW t \in Threads,
           call[t].at \in {"link", "handle", "unlink", "drop", "reader", "undo"},
           NEW at \in {"link", "handle", "unlink", "drop", "reader", "undo"}, Goto(t, at)
    PROVE  call' \in [Threads -> Calls]
<1>1. call[t].pipe \in Blocks
    BY CallShape
<1>2. [at |-> at, pipe |-> call[t].pipe] \in Calls
    BY <1>1 DEF Calls
<1> QED BY <1>2 DEF Goto, TypeOK

LEMMA ReturnsStep ==
    ASSUME TypeOK, NEW t \in Threads, Returns(t)
    PROVE  /\ call'[t].at = "idle" /\ call' \in [Threads -> Calls]
           /\ \A u \in Threads \ {t} :
                 /\ call'[u] = call[u]
                 /\ Owned(u)' = Owned(u)
                 /\ \A b : (Creates(u, b)' <=> Creates(u, b)) /\ (Opens(u, b)' <=> Opens(u, b))
<1>1. Idle \in Calls /\ Idle.at = "idle" /\ call' = [call EXCEPT ![t] = Idle]
    BY DEF Calls, Idle, Returns
<1>2. call' \in [Threads -> Calls]
    BY <1>1 DEF TypeOK
<1> QED BY <1>1, <1>2, OneCall

(* A pipe nobody works on leaves no trace in the handles and the calls.     *)
LEMMA NoUsers ==
    ASSUME StreamsInv, NEW b, b \notin Linked, NEW u \in Threads
    PROVE  Reads(u, b) = {} /\ Writes(u, b) = {} /\ ~Creates(u, b) /\ ~Opens(u, b)
BY DEF StreamsInv, HandlesSound, CallsSound, Reads, Writes, Creates, Opens

(* What has to be shown of a pipe a step changes, or whose users it changes. *)
LEMMA WriterIs ==
    ASSUME NEW b, NEW s, pipe'[b].source = s,
           pipe'[b].writer_open <=> Creates(s, b)' \/ Writes(s, b)' # {},
           Creates(s, b)' => Writes(s, b)' = {},
           \A h, k \in Writes(s, b)' : h = k
    PROVE  WriterOf(b, pipe[b].source)'
BY DEF WriterOf

LEMMA ReadersAre ==
    ASSUME NEW b, NEW d, pipe'[b].dest = d,
           pipe'[b].readers = Cardinality(Reads(d, b)') + (IF Opens(d, b)' THEN 1 ELSE 0)
    PROVE  ReadersOf(b, pipe[b].dest)'
BY DEF ReadersOf

LEMMA LinkStep ==
    ASSUME StreamsInv, NEW t \in Threads, WopenLink(t)
    PROVE  StreamsInv'
<1>0. PICK p \in Blocks : p = call[t].pipe
    BY CallShape DEF WopenLink, In, StreamsInv
<1>1. /\ call[t].at = "link" /\ p = call[t].pipe /\ UNCHANGED <<pipe, used, handles>>
      /\ TypeOK /\ Owned(t) = {p} /\ p \in used /\ p \notin Linked
      /\ pipe[p] \in Pipes /\ pipe[p].source = t
      /\ pipe[p].readers = 0 /\ pipe[p].writer_open
    BY <1>0 DEF WopenLink, In, StreamsInv, CallsSound, OwnedApart, Owned
<1>2. CASE Matches(pipe[p].dest) = {} /\ g_streams' = <<p>> \o g_streams /\ Goto(t, "handle")
    <2>1. /\ g_streams' \in Seq(Blocks) /\ Linked' = Linked \cup {p}
          /\ NoRepeats(g_streams')
        <3>1. g_streams \in Seq(Blocks) /\ NoRepeats(g_streams) /\ p \in Blocks \ ToSet(g_streams)
            BY <1>1 DEF StreamsInv, TypeOK, ListSound, NoRepeats, Linked
        <3> QED BY <1>2, <3>1, LinkEffect DEF Linked
    <2>2. /\ call'[t].at = "handle" /\ call'[t].pipe = p
          /\ \A u \in Threads \ {t} :
                /\ call'[u] = call[u]
                /\ Owned(u)' = Owned(u)
                /\ \A b : (Creates(u, b)' <=> Creates(u, b)) /\ (Opens(u, b)' <=> Opens(u, b))
        BY <1>1, <1>2, GotoStep
    <2>3. Owned(t)' = {}
        BY <2>2 DEF Owned
    <2>4. TypeOK'
        BY <1>1, <1>2, <2>1, GotoType DEF TypeOK
    <2>5. ListSound'
        <3>1. \A b \in Linked : pipe[b].dest # pipe[p].dest
            BY <1>2, NoMatch
        <3> QED BY <1>1, <2>1, <3>1 DEF StreamsInv, ListSound, NoRepeats
    <2>6. HandlesSound'
        <3>1. \A u \in Threads : \A h \in handles[u] : h.block # p
            BY <1>1 DEF StreamsInv, OwnedApart
        <3> QED BY <1>1, <2>1, <3>1 DEF StreamsInv, HandlesSound
    <2>7. OwnedApart'
        <3>1. \A u \in Threads \ {t} : p \notin Owned(u)
            BY <1>1 DEF StreamsInv, OwnedApart
        <3> QED BY <1>1, <2>1, <2>2, <2>3, <3>1 DEF StreamsInv, OwnedApart
    <2>8. CallsSound'
        BY <1>1, <2>1, <2>2 DEF StreamsInv, CallsSound
    <2>9. \A u \in Threads : \A b : Reads(u, b)' = Reads(u, b) /\ Writes(u, b)' = Writes(u, b)
        BY <1>1 DEF Reads, Writes
    <2>10. /\ \A b : b # p => (Creates(t, b)' <=> Creates(t, b))
           /\ \A b : Opens(t, b)' <=> Opens(t, b)
           /\ Creates(t, p)'
        BY <1>1, <2>2 DEF Creates, Opens
    <2>11. WriterCounted'
        <3> SUFFICES ASSUME NEW b \in Linked \cup {p} PROVE WriterOf(b, pipe[b].source)'
            BY <2>1 DEF WriterCounted
        <3>1. CASE b = p
            <4>1. Writes(t, p) = {}
                BY <1>1, NoUsers
            <4>2. Writes(t, p)' = {} /\ Creates(t, p)' /\ pipe'[p].source = t
                  /\ pipe'[p].writer_open
                BY <1>1, <2>9, <2>10, <4>1
            <4> QED BY <3>1, <4>2, WriterIs
        <3>2. CASE b # p
            <4>1. b \in Linked /\ pipe[b].source \in Threads
                BY <3>2, LinkedPipe DEF StreamsInv
            <4> QED BY <1>1, <2>2, <2>9, <2>10, <3>2, <4>1, WriterKept
        <3> QED BY <3>1, <3>2
    <2>12. ReadersCounted'
        <3> SUFFICES ASSUME NEW b \in Linked \cup {p} PROVE ReadersOf(b, pipe[b].dest)'
            BY <2>1 DEF ReadersCounted
        <3>1. CASE b = p
            <4>1. PICK d \in Threads : d = pipe[p].dest
                BY <1>1 DEF Pipes
            <4>2. Reads(d, p) = {} /\ ~Opens(d, p)
                BY <1>1, NoUsers
            <4>3. Reads(d, p)' = {} /\ ~Opens(d, p)'
                BY <1>1, <2>2, <2>9, <2>10, <4>2
            <4>4. Cardinality(Reads(d, p)') = 0
                BY <4>3, FS_EmptySet
            <4>5. pipe'[p].dest = d /\ pipe'[p].readers = 0
                BY <1>1, <4>1
            <4>6. pipe'[p].readers = Cardinality(Reads(d, p)') + (IF Opens(d, p)' THEN 1 ELSE 0)
                BY <4>3, <4>4, <4>5
            <4> QED BY <3>1, <4>5, <4>6, ReadersAre
        <3>2. CASE b # p
            <4>1. b \in Linked /\ pipe[b].dest \in Threads
                BY <3>2, LinkedPipe DEF StreamsInv
            <4> QED BY <1>1, <2>2, <2>9, <2>10, <3>2, <4>1, ReadersKept
        <3> QED BY <3>1, <3>2
    <2>13. LinkedInUse'
        BY <1>1, <2>1 DEF StreamsInv, LinkedInUse
    <2>14. Accounted'
        BY <1>1, <2>1, <2>2, <2>3 DEF StreamsInv, Accounted
    <2> QED BY <2>4, <2>5, <2>6, <2>7, <2>8, <2>11, <2>12, <2>13, <2>14 DEF StreamsInv
<1>3. CASE Goto(t, "drop") /\ UNCHANGED g_streams
    <2> DEFINE r == [at |-> "drop", pipe |-> p]
    <2>1. /\ call'[t].at = "drop" /\ call'[t].pipe = p
          /\ \A u \in Threads \ {t} : call'[u] = call[u] /\ Owned(u)' = Owned(u)
        BY <1>1, <1>3, GotoStep
    <2>2. Linked' = Linked /\ \A u \in Threads : Owned(u)' = Owned(u)
        BY <1>1, <1>3, <2>1 DEF Owned, Linked
    <2>3. TypeOK'
        BY <1>1, <1>3, GotoType DEF TypeOK
    <2>4. /\ ListSound' /\ HandlesSound' /\ CallsSound'
          /\ WriterCounted' /\ ReadersCounted' /\ LinkedInUse'
        <3>1. Unattached(call[t]) /\ Unattached(r) /\ r.at # "link"
            BY <1>1 DEF Unattached
        <3>2. \A b \in Linked : b \in used
            BY DEF StreamsInv, ListSound
        <3>3. \A u \in Threads : \A h \in handles[u] : h.block \in used
            BY DEF StreamsInv, HandlesSound
        <3>4. call' = [call EXCEPT ![t] = r]
            BY <1>1, <1>3 DEF Goto
        <3> HIDE DEF r
        <3> QED BY <1>1, <1>3, <3>1, <3>2, <3>3, <3>4, OffListStep
    <2>5. OwnedApart' /\ Accounted'
        BY <1>1, <2>1, <2>2 DEF StreamsInv, OwnedApart, Accounted
    <2> QED BY <2>3, <2>4, <2>5 DEF StreamsInv
<1> QED BY <1>1, <1>2, <1>3 DEF WopenLink

-----------------------------------------------------------------------------
(* A handle is made for a pipe, for its writer or for its reader.           *)
New(b, p, w) == [block |-> b, pipe |-> p, writer |-> w]

LEMMA HandleAdded ==
    ASSUME StreamsInv, NEW t \in Threads, NEW b \in Blocks, Consume(b),
           NEW p \in Linked, NEW w \in BOOLEAN,
           t = IF w THEN pipe[p].source ELSE pipe[p].dest,
           handles' = [handles EXCEPT ![t] = @ \cup {New(b, p, w)}],
           call[t].at \in {"handle", "reader"}, Returns(t), UNCHANGED <<g_streams, pipe>>
    PROVE  /\ TypeOK' /\ ListSound' /\ HandlesSound' /\ OwnedApart' /\ CallsSound'
           /\ LinkedInUse' /\ Accounted' /\ Linked' = Linked
           /\ New(b, p, w) \notin handles[t]
           /\ handles'[t] = handles[t] \cup {New(b, p, w)}
           /\ \A u \in Threads \ {t} : handles'[u] = handles[u]
           /\ call'[t].at = "idle"
<1> DEFINE h0 == New(b, p, w)
<1>1. /\ b \in Blocks \ used /\ used' = used \cup {b} /\ b \notin Linked
      /\ \A u \in Threads : b \notin Owned(u)
      /\ \A u \in Threads : \A h \in handles[u] : h.block # b
    BY FreshBlock DEF Consume
<1>2. h0 \in Handles /\ h0.block = b /\ h0.pipe = p /\ h0.writer = w
    BY DEF New, Handles, StreamsInv, TypeOK, ListSound
<1>3. /\ handles' \in [Threads -> SUBSET Handles] /\ handles'[t] = handles[t] \cup {h0}
      /\ \A u \in Threads \ {t} : handles'[u] = handles[u]
    BY <1>2 DEF StreamsInv, TypeOK
<1>4. Linked' = Linked
    BY DEF Linked
<1>5. /\ call'[t].at = "idle" /\ call' \in [Threads -> Calls]
      /\ \A u \in Threads \ {t} : call'[u] = call[u] /\ Owned(u)' = Owned(u)
    BY ReturnsStep DEF StreamsInv
<1>6. \A u \in Threads : Owned(u)' = Owned(u)
    BY <1>5 DEF Owned
<1>7. h0 \notin handles[t]
    BY <1>1, <1>2
<1> HIDE DEF h0
<1>8. TypeOK'
    BY <1>1, <1>3, <1>5 DEF StreamsInv, TypeOK
<1>9. ListSound' /\ LinkedInUse'
    BY <1>1, <1>4 DEF StreamsInv, ListSound, LinkedInUse
<1>10. HandlesSound'
    <2>1. \A u \in Threads : IsFiniteSet(handles'[u])
        BY <1>3, FS_AddElement DEF StreamsInv, HandlesSound
    <2>2. ASSUME NEW u \in Threads, NEW h \in handles'[u]
          PROVE  /\ h.pipe \in Linked'
                 /\ u = IF h.writer THEN pipe'[h.pipe].source ELSE pipe'[h.pipe].dest
                 /\ h.block \in used' /\ h.block \notin Linked'
                 /\ \A v \in Threads : \A k \in handles'[v] : h.block = k.block => u = v /\ h = k
        <3>1. CASE h \in handles[u]
            BY <1>1, <1>2, <1>3, <1>4, <3>1 DEF StreamsInv, HandlesSound
        <3>2. CASE h \notin handles[u]
            <4>1. u = t /\ h = h0
                BY <1>3, <3>2
            <4> QED BY <1>1, <1>2, <1>3, <1>4, <4>1
        <3> QED BY <3>1, <3>2
    <2> QED BY <2>1, <2>2 DEF HandlesSound
<1>11. OwnedApart'
    <2>1. \A u \in Threads : call'[u].at = "destroy" => call'[u] = call[u]
        BY <1>5
    <2>2. \A u \in Threads : \A h \in handles'[u] : h \in handles[u] \/ h.block = b
        BY <1>2, <1>3
    <2> QED BY <1>1, <1>4, <1>6, <2>1, <2>2 DEF StreamsInv, OwnedApart
<1>12. CallsSound'
    BY <1>4, <1>5 DEF StreamsInv, CallsSound
<1>13. Accounted'
    <2>1. h0 \in handles'[t]
        BY <1>3
    <2>2. \A u \in Threads : handles[u] \subseteq handles'[u]
        BY <1>3
    <2> QED BY <1>1, <1>2, <1>4, <1>6, <2>1, <2>2 DEF StreamsInv, Accounted
<1> QED BY <1>3, <1>4, <1>5, <1>7, <1>8, <1>9, <1>10, <1>11, <1>12, <1>13 DEF h0

(* A call that fails passes to the place that undoes it.                    *)
LEMMA FailureStep ==
    ASSUME StreamsInv, ~LateFailures, NEW t \in Threads,
           \/ call[t].at = "handle" /\ Goto(t, "unlink") /\ pipe[call[t].pipe].readers = 0
           \/ call[t].at = "reader" /\ Goto(t, "undo") /\ pipe[call[t].pipe].writer_open,
           UNCHANGED <<g_streams, pipe, used, handles>>
    PROVE  StreamsInv'
<1>1. TypeOK
    BY DEF StreamsInv
<1>2. /\ call'[t].pipe = call[t].pipe
      /\ \/ call[t].at = "handle" /\ call'[t].at = "unlink" /\ pipe[call[t].pipe].readers = 0
         \/ call[t].at = "reader" /\ call'[t].at = "undo" /\ pipe[call[t].pipe].writer_open
      /\ \A u \in Threads \ {t} :
            /\ call'[u] = call[u]
            /\ Owned(u)' = Owned(u)
            /\ \A b : (Creates(u, b)' <=> Creates(u, b)) /\ (Opens(u, b)' <=> Opens(u, b))
    BY <1>1, GotoStep
<1>3. /\ Linked' = Linked
      /\ \A u \in Threads : Owned(u)' = Owned(u)
      /\ \A u \in Threads : \A b : /\ Creates(u, b)' <=> Creates(u, b)
                                   /\ Opens(u, b)' <=> Opens(u, b)
      /\ \A u \in Threads : \A b : Reads(u, b)' = Reads(u, b) /\ Writes(u, b)' = Writes(u, b)
    <2>1. Owned(t)' = Owned(t)
        BY <1>2 DEF Owned
    <2>2. \A b : (Creates(t, b)' <=> Creates(t, b)) /\ (Opens(t, b)' <=> Opens(t, b))
        BY <1>2 DEF Creates, Opens
    <2> QED BY <1>2, <2>1, <2>2 DEF Linked, Reads, Writes
<1>4. TypeOK'
    <2>1. call' \in [Threads -> Calls]
        BY <1>1, GotoType
    <2> QED BY <1>1, <2>1 DEF TypeOK
<1>5. ListSound' /\ HandlesSound' /\ LinkedInUse' /\ Accounted'
    BY <1>3 DEF StreamsInv, ListSound, HandlesSound, LinkedInUse, Accounted
<1>6. OwnedApart'
    <2>1. \A u \in Threads : call'[u].at = "destroy" => call'[u] = call[u]
        BY <1>2
    <2> QED BY <1>3, <2>1 DEF StreamsInv, OwnedApart
<1>7. CallsSound'
    BY <1>2, <1>3 DEF StreamsInv, CallsSound
<1>8. WriterCounted' /\ ReadersCounted'
    <2> SUFFICES ASSUME NEW b \in Linked
                 PROVE  WriterOf(b, pipe[b].source)' /\ ReadersOf(b, pipe[b].dest)'
        BY <1>3 DEF WriterCounted, ReadersCounted
    <2>1. pipe[b].source \in Threads /\ pipe[b].dest \in Threads
        BY LinkedPipe DEF StreamsInv
    <2> QED BY <1>3, <2>1, WriterKept, ReadersKept
<1> QED BY <1>4, <1>5, <1>6, <1>7, <1>8 DEF StreamsInv

LEMMA WopenHandleStep ==
    ASSUME StreamsInv, ~LateFailures, NEW t \in Threads, WopenHandle(t)
    PROVE  StreamsInv'
<1>0. PICK p \in Blocks : p = call[t].pipe
    BY CallShape DEF WopenHandle, In, StreamsInv
<1>1. /\ call[t].at = "handle" /\ UNCHANGED <<g_streams, pipe>> /\ Creates(t, p)
      /\ p \in Linked /\ pipe[p].source = t /\ pipe[p].writer_open
    BY <1>0 DEF WopenHandle, In, Creates, StreamsInv, CallsSound
<1>2. ASSUME NEW b \in Blocks, Consume(b), Returns(t),
             handles' = [handles EXCEPT ![t] = @ \cup {New(b, p, TRUE)}]
      PROVE  StreamsInv'
    <2> DEFINE h0 == New(b, p, TRUE)
    <2>1. /\ TypeOK' /\ ListSound' /\ HandlesSound' /\ OwnedApart' /\ CallsSound'
          /\ LinkedInUse' /\ Accounted' /\ Linked' = Linked
          /\ handles'[t] = handles[t] \cup {h0}
          /\ \A u \in Threads \ {t} : handles'[u] = handles[u]
          /\ call'[t].at = "idle"
        BY <1>1, <1>2, HandleAdded
    <2>2. h0.pipe = p /\ h0.writer = TRUE
        BY DEF New
    <2> HIDE DEF h0
    <2>3. Writes(t, p) = {}
        BY <1>1 DEF StreamsInv, WriterCounted, WriterOf
    <2>4. /\ Writes(t, p)' = {h0}
          /\ \A c : c # p => Writes(t, c)' = Writes(t, c)
          /\ \A c : Reads(t, c)' = Reads(t, c)
        BY <2>1, <2>2, <2>3 DEF Reads, Writes
    <2>5. \A u \in Threads \ {t} : \A c : Reads(u, c)' = Reads(u, c) /\ Writes(u, c)' = Writes(u, c)
        BY <2>1 DEF Reads, Writes
    <2>6. /\ ~Creates(t, p)' /\ \A c : Opens(t, c)' <=> Opens(t, c)
          /\ \A c : c # p => (Creates(t, c)' <=> Creates(t, c))
        BY <1>0, <1>1, <2>1 DEF Creates, Opens
    <2>7. \A u \in Threads \ {t} :
             \A c : (Creates(u, c)' <=> Creates(u, c)) /\ (Opens(u, c)' <=> Opens(u, c))
        BY <1>2, ReturnsStep DEF StreamsInv
    <2>8. WriterCounted'
        <3> SUFFICES ASSUME NEW c \in Linked PROVE WriterOf(c, pipe[c].source)'
            BY <2>1 DEF WriterCounted
        <3>1. CASE c = p
            BY <1>1, <2>4, <2>6, <3>1, WriterIs
        <3>2. CASE c # p
            <4>1. pipe[c].source \in Threads
                BY LinkedPipe DEF StreamsInv
            <4> QED BY <1>1, <2>4, <2>5, <2>6, <2>7, <3>2, <4>1, WriterKept
        <3> QED BY <3>1, <3>2
    <2>9. ReadersCounted'
        <3> SUFFICES ASSUME NEW c \in Linked PROVE ReadersOf(c, pipe[c].dest)'
            BY <2>1 DEF ReadersCounted
        <3>1. pipe[c].dest \in Threads
            BY LinkedPipe DEF StreamsInv
        <3> QED BY <1>1, <2>4, <2>5, <2>6, <2>7, <3>1, ReadersKept
    <2> QED BY <2>1, <2>8, <2>9 DEF StreamsInv
<1>3. CASE Refused(pipe[p].readers = 0) /\ Goto(t, "unlink") /\ UNCHANGED <<used, handles>>
    BY <1>0, <1>1, <1>3, FailureStep DEF Refused
<1> QED BY <1>0, <1>2, <1>3 DEF WopenHandle, New

LEMMA RopenHandleStep ==
    ASSUME StreamsInv, ~LateFailures, NEW t \in Threads, RopenHandle(t)
    PROVE  StreamsInv'
<1>0. PICK p \in Blocks : p = call[t].pipe
    BY CallShape DEF RopenHandle, In, StreamsInv
<1>1. /\ call[t].at = "reader" /\ UNCHANGED <<g_streams, pipe>> /\ Opens(t, p)
      /\ p \in Linked /\ pipe[p].dest = t
    BY <1>0 DEF RopenHandle, In, Opens, StreamsInv, CallsSound
<1>2. ASSUME NEW b \in Blocks, Consume(b), Returns(t),
             handles' = [handles EXCEPT ![t] = @ \cup {New(b, p, FALSE)}]
      PROVE  StreamsInv'
    <2> DEFINE h0 == New(b, p, FALSE)
    <2>1. /\ TypeOK' /\ ListSound' /\ HandlesSound' /\ OwnedApart' /\ CallsSound'
          /\ LinkedInUse' /\ Accounted' /\ Linked' = Linked
          /\ h0 \notin handles[t] /\ handles'[t] = handles[t] \cup {h0}
          /\ \A u \in Threads \ {t} : handles'[u] = handles[u]
          /\ call'[t].at = "idle"
        BY <1>1, <1>2, HandleAdded
    <2>2. h0.pipe = p /\ h0.writer = FALSE
        BY DEF New
    <2> HIDE DEF h0
    <2>3. /\ Reads(t, p)' = Reads(t, p) \cup {h0} /\ h0 \notin Reads(t, p)
          /\ \A c : c # p => Reads(t, c)' = Reads(t, c)
          /\ \A c : Writes(t, c)' = Writes(t, c)
        BY <2>1, <2>2 DEF Reads, Writes
    <2>4. IsFiniteSet(Reads(t, p))
        BY FS_Subset DEF Reads, StreamsInv, HandlesSound
    <2>5. \A u \in Threads \ {t} : \A c : Reads(u, c)' = Reads(u, c) /\ Writes(u, c)' = Writes(u, c)
        BY <2>1 DEF Reads, Writes
    <2>6. /\ ~Opens(t, p)' /\ \A c : Creates(t, c)' <=> Creates(t, c)
          /\ \A c : c # p => (Opens(t, c)' <=> Opens(t, c))
        BY <1>0, <1>1, <2>1 DEF Creates, Opens
    <2>7. \A u \in Threads \ {t} :
             \A c : (Creates(u, c)' <=> Creates(u, c)) /\ (Opens(u, c)' <=> Opens(u, c))
        BY <1>2, ReturnsStep DEF StreamsInv
    <2>8. WriterCounted'
        <3> SUFFICES ASSUME NEW c \in Linked PROVE WriterOf(c, pipe[c].source)'
            BY <2>1 DEF WriterCounted
        <3>1. pipe[c].source \in Threads
            BY LinkedPipe DEF StreamsInv
        <3> QED BY <1>1, <2>3, <2>5, <2>6, <2>7, <3>1, WriterKept
    <2>9. ReadersCounted'
        <3> SUFFICES ASSUME NEW c \in Linked PROVE ReadersOf(c, pipe[c].dest)'
            BY <2>1 DEF ReadersCounted
        <3>1. CASE c = p
            <4>1. pipe[p].readers = Cardinality(Reads(t, p)) + 1
                BY <1>1 DEF StreamsInv, ReadersCounted, ReadersOf
            <4>2. Cardinality(Reads(t, p)') = Cardinality(Reads(t, p)) + 1
                  /\ Cardinality(Reads(t, p)) \in Nat
                BY <2>3, <2>4, FS_AddElement, FS_CardinalityType
            <4>3. pipe'[p].readers = Cardinality(Reads(t, p)') + (IF Opens(t, p)' THEN 1 ELSE 0)
                BY <1>1, <2>6, <4>1, <4>2
            <4> QED BY <1>1, <3>1, <4>3, ReadersAre
        <3>2. CASE c # p
            <4>1. pipe[c].dest \in Threads
                BY LinkedPipe DEF StreamsInv
            <4> QED BY <1>1, <2>3, <2>5, <2>6, <2>7, <3>2, <4>1, ReadersKept
        <3> QED BY <3>1, <3>2
    <2> QED BY <2>1, <2>8, <2>9 DEF StreamsInv
<1>3. CASE Refused(pipe[p].writer_open) /\ Goto(t, "undo") /\ UNCHANGED <<used, handles>>
    BY <1>0, <1>1, <1>3, FailureStep DEF Refused
<1> QED BY <1>0, <1>2, <1>3 DEF RopenHandle, New

-----------------------------------------------------------------------------
(* A reader is counted in or out of a pipe that is open for writing.        *)
LEMMA Recount ==
    ASSUME StreamsInv, NEW t \in Threads, NEW p \in Linked, NEW n \in Nat, NEW r \in Calls,
           pipe[p].dest = t, pipe[p].writer_open,
           \A u \in Threads \ {t} : call[u].at # "unlink",
           pipe' = [pipe EXCEPT ![p].readers = n], call' = [call EXCEPT ![t] = r],
           UNCHANGED <<g_streams, used, handles>>,
           call[t].at = "idle" \/ (call[t].at = "undo" /\ call[t].pipe = p),
           r.at = "idle" \/ (r.at = "reader" /\ r.pipe = p),
           n = Cardinality(Reads(t, p)) + (IF r.at = "reader" THEN 1 ELSE 0)
    PROVE  StreamsInv'
<1>1. TypeOK /\ p \in Blocks /\ pipe[p] \in Pipes /\ p \in used
    BY DEF StreamsInv, TypeOK, ListSound
<1>2. /\ pipe'[p].source = pipe[p].source /\ pipe'[p].dest = t /\ pipe'[p].readers = n
      /\ pipe'[p].writer_open /\ pipe'[p] \in Pipes
      /\ pipe' \in [Blocks -> Pipes \cup {NoPipe}]
      /\ \A b \in Blocks \ {p} : pipe'[b] = pipe[b]
    BY <1>1 DEF TypeOK, Pipes
<1>3. /\ call'[t] = r
      /\ \A u \in Threads \ {t} :
            /\ call'[u] = call[u]
            /\ Owned(u)' = Owned(u)
            /\ \A b : (Creates(u, b)' <=> Creates(u, b)) /\ (Opens(u, b)' <=> Opens(u, b))
    BY <1>1, OneCall
<1>4. /\ Linked' = Linked
      /\ \A u \in Threads : \A b : Reads(u, b)' = Reads(u, b) /\ Writes(u, b)' = Writes(u, b)
    BY DEF Linked, Reads, Writes
<1>5. \A u \in Threads : Owned(u)' = Owned(u)
    BY <1>3 DEF Owned
<1>6. /\ \A b : Creates(t, b)' <=> Creates(t, b)
      /\ \A b : b # p => (Opens(t, b)' <=> Opens(t, b))
      /\ Opens(t, p)' <=> r.at = "reader"
    BY <1>3 DEF Creates, Opens
<1>7. Linked \subseteq Blocks
    BY <1>1 DEF StreamsInv, TypeOK, ListSound
<1>8. \A b \in Linked : /\ pipe'[b].source = pipe[b].source /\ pipe'[b].dest = pipe[b].dest
                        /\ pipe'[b].writer_open = pipe[b].writer_open
                        /\ pipe'[b] \in Pipes
    BY <1>1, <1>2, <1>7 DEF StreamsInv, ListSound, Pipes
<1>9. TypeOK'
    BY <1>1, <1>2 DEF TypeOK
<1>10. ListSound' /\ HandlesSound'
    BY <1>4, <1>8 DEF StreamsInv, ListSound, HandlesSound
<1>11. OwnedApart'
    <2>1. \A u \in Threads : call'[u].at = "destroy" => call'[u] = call[u]
        BY <1>3
    <2> QED BY <1>4, <1>5, <2>1 DEF StreamsInv, OwnedApart
<1>12. CallsSound'
    <2>1. \A u \in Threads : call[u].at = "link" => pipe'[call[u].pipe] = pipe[call[u].pipe]
        <3>1. \A u \in Threads : call[u].at = "link" => /\ call[u].pipe \in Blocks
                                                        /\ call[u].pipe \in Owned(u)
            BY <1>1, CallShape DEF Owned
        <3>2. \A u \in Threads : p \notin Owned(u)
            BY DEF StreamsInv, OwnedApart
        <3> QED BY <1>2, <3>1, <3>2
    <2>2. call'[t].at \in {"reader", "undo"} => call'[t].at = "reader" /\ call'[t].pipe = p
        BY <1>3
    <2>3. call'[t].at \notin {"link", "handle", "unlink"}
        BY <1>3
    <2>4. \A u \in Threads \ {t} : call'[u] = call[u]
        BY <1>3
    <2> SUFFICES ASSUME NEW u \in Threads
                 PROVE  /\ call'[u].at = "link" => /\ pipe'[call'[u].pipe] \in Pipes
                                                   /\ pipe'[call'[u].pipe].source = u
                                                   /\ pipe'[call'[u].pipe].readers = 0
                                                   /\ pipe'[call'[u].pipe].writer_open
                        /\ call'[u].at \in {"handle", "unlink"} =>
                               /\ call'[u].pipe \in Linked'
                               /\ pipe'[call'[u].pipe].source = u
                               /\ pipe'[call'[u].pipe].writer_open
                        /\ call'[u].at = "unlink" => pipe'[call'[u].pipe].readers = 0
                        /\ call'[u].at \in {"reader", "undo"} => /\ call'[u].pipe \in Linked'
                                                                 /\ pipe'[call'[u].pipe].dest = u
                        /\ call'[u].at = "undo" => pipe'[call'[u].pipe].writer_open
        BY DEF CallsSound
    <2>5. CASE u = t
        BY <1>2, <1>4, <2>2, <2>3, <2>5
    <2>6. CASE u # t
        <3>1. call'[u] = call[u] /\ call[u].at # "unlink"
            BY <2>4, <2>6
        <3>2. call[u].at = "link" => pipe'[call[u].pipe] = pipe[call[u].pipe]
            BY <2>1
        <3>3. call[u].at \in {"handle", "unlink", "reader", "undo"} =>
                 /\ call[u].pipe \in Linked
                 /\ pipe'[call[u].pipe].source = pipe[call[u].pipe].source
                 /\ pipe'[call[u].pipe].dest = pipe[call[u].pipe].dest
                 /\ pipe'[call[u].pipe].writer_open = pipe[call[u].pipe].writer_open
            BY <1>8 DEF StreamsInv, CallsSound
        <3>4. /\ call[u].at = "link" => /\ pipe[call[u].pipe] \in Pipes
                                        /\ pipe[call[u].pipe].source = u
                                        /\ pipe[call[u].pipe].readers = 0
                                        /\ pipe[call[u].pipe].writer_open
              /\ call[u].at = "handle" => /\ pipe[call[u].pipe].source = u
                                          /\ pipe[call[u].pipe].writer_open
              /\ call[u].at \in {"reader", "undo"} => pipe[call[u].pipe].dest = u
              /\ call[u].at = "undo" => pipe[call[u].pipe].writer_open
            BY DEF StreamsInv, CallsSound
        <3>5. call[u].at = "link" => /\ pipe'[call[u].pipe] \in Pipes
                                     /\ pipe'[call[u].pipe].source = u
                                     /\ pipe'[call[u].pipe].readers = 0
                                     /\ pipe'[call[u].pipe].writer_open
            BY <3>2, <3>4
        <3>6. call[u].at = "handle" => /\ call[u].pipe \in Linked
                                       /\ pipe'[call[u].pipe].source = u
                                       /\ pipe'[call[u].pipe].writer_open
            BY <3>3, <3>4
        <3>7. call[u].at \in {"reader", "undo"} => /\ call[u].pipe \in Linked
                                                   /\ pipe'[call[u].pipe].dest = u
            BY <3>3, <3>4
        <3>8. call[u].at = "undo" => pipe'[call[u].pipe].writer_open
            BY <3>3, <3>4
        <3> QED BY <1>4, <3>1, <3>5, <3>6, <3>7, <3>8
    <2> QED BY <2>5, <2>6
<1>13. WriterCounted'
    <2> SUFFICES ASSUME NEW b \in Linked PROVE WriterOf(b, pipe[b].source)'
        BY <1>4 DEF WriterCounted
    <2>1. pipe[b].source \in Threads
        BY LinkedPipe DEF StreamsInv
    <2> QED BY <1>3, <1>4, <1>6, <1>8, <2>1, WriterKept
<1>14. ReadersCounted'
    <2> SUFFICES ASSUME NEW b \in Linked PROVE ReadersOf(b, pipe[b].dest)'
        BY <1>4 DEF ReadersCounted
    <2>1. CASE b = p
        <3>1. pipe'[p].readers = Cardinality(Reads(t, p)') + (IF Opens(t, p)' THEN 1 ELSE 0)
            BY <1>2, <1>4, <1>6
        <3> QED BY <1>2, <2>1, <3>1, ReadersAre
    <2>2. CASE b # p
        <3>1. pipe[b].dest \in Threads /\ pipe'[b] = pipe[b]
            BY <1>2, <1>7, <2>2, LinkedPipe DEF StreamsInv
        <3> QED BY <1>3, <1>4, <1>6, <2>2, <3>1, ReadersKept
    <2> QED BY <2>1, <2>2
<1>15. LinkedInUse'
    <2>1. \A b \in Linked \ {p} : pipe'[b] = pipe[b]
        BY <1>2, <1>7
    <2> QED BY <1>2, <1>4, <2>1 DEF StreamsInv, LinkedInUse
<1>16. Accounted'
    BY <1>4, <1>5 DEF StreamsInv, Accounted
<1> QED BY <1>9, <1>10, <1>11, <1>12, <1>13, <1>14, <1>15, <1>16 DEF StreamsInv

LEMMA NobodyFails ==
    ASSUME ~LateFailures, NEW t \in Threads, Scheduled(t)
    PROVE  \A u \in Threads \ {t} : call[u].at \notin {"unlink", "undo"}
BY DEF Scheduled, Failing

LEMMA ReadsFinite ==
    ASSUME StreamsInv, NEW t \in Threads, NEW b
    PROVE  /\ IsFiniteSet(Reads(t, b)) /\ Cardinality(Reads(t, b)) \in Nat
           /\ Cardinality(Reads(t, b)) = 0 <=> Reads(t, b) = {}
<1>1. IsFiniteSet(Reads(t, b))
    BY FS_Subset DEF Reads, StreamsInv, HandlesSound
<1> QED BY <1>1, FS_CardinalityType, FS_EmptySet

LEMMA RopenStep ==
    ASSUME StreamsInv, ~LateFailures, NEW t \in Threads, tstream_ropen(t)
    PROVE  StreamsInv'
<1>1. /\ call[t].at = "idle" /\ Matches(t) # {} /\ UNCHANGED <<g_streams, used, handles>>
      /\ \A u \in Threads \ {t} : call[u].at # "unlink"
    BY NobodyFails DEF tstream_ropen, In
<1>2. PICK p : p = tstream_find_pipe(t)
    OBVIOUS
<1>3. p \in Linked /\ pipe[p].dest = t
    BY <1>1, <1>2, FindEffect DEF StreamsInv, TypeOK
<1>4. /\ pipe[p].writer_open /\ pipe' = [pipe EXCEPT ![p].readers = @ + 1]
      /\ call' = [call EXCEPT ![t] = [at |-> "reader", pipe |-> p]]
    BY <1>2 DEF tstream_ropen
<1>5. PICK n : n = Cardinality(Reads(t, p)) + 1
    OBVIOUS
<1>6. n \in Nat
    BY <1>5, ReadsFinite
<1>7. pipe[p].readers + 1 = n
    <2>1. ~Opens(t, p)
        BY <1>1 DEF Opens
    <2> QED BY <1>3, <1>5, <2>1, ReadsFinite DEF StreamsInv, ReadersCounted, ReadersOf
<1>8. pipe' = [pipe EXCEPT ![p].readers = n]
    BY <1>4, <1>7
<1>9. PICK r : r = [at |-> "reader", pipe |-> p]
    OBVIOUS
<1>10. r \in Calls /\ r.at = "reader" /\ r.pipe = p
    BY <1>3, <1>9 DEF Calls, StreamsInv, TypeOK, ListSound
<1> QED BY <1>1, <1>3, <1>4, <1>5, <1>6, <1>8, <1>9, <1>10, Recount

LEMMA UndoStep ==
    ASSUME StreamsInv, ~LateFailures, NEW t \in Threads, RopenUndo(t)
    PROVE  StreamsInv'
<1>1. PICK p : p = call[t].pipe
    OBVIOUS
<1>2. /\ call[t].at = "undo" /\ p = call[t].pipe /\ UNCHANGED <<g_streams, used, handles>>
      /\ p \in Linked /\ pipe[p].dest = t /\ pipe[p].writer_open
      /\ pipe' = [pipe EXCEPT ![p].readers = IF @ > 0 THEN @ - 1 ELSE @]
      /\ call' = [call EXCEPT ![t] = Idle]
      /\ \A u \in Threads \ {t} : call[u].at # "unlink"
    BY <1>1, NobodyFails DEF RopenUndo, In, Returns, StreamsInv, CallsSound
<1>3. PICK n : n = Cardinality(Reads(t, p))
    OBVIOUS
<1>4. n \in Nat
    BY <1>3, ReadsFinite
<1>5. pipe[p].readers = n + 1
    <2>1. Opens(t, p)
        BY <1>2 DEF Opens
    <2> QED BY <1>2, <1>3, <2>1 DEF StreamsInv, ReadersCounted, ReadersOf
<1>6. pipe' = [pipe EXCEPT ![p].readers = n]
    <2>1. (IF pipe[p].readers > 0 THEN pipe[p].readers - 1 ELSE pipe[p].readers) = n
        BY <1>4, <1>5
    <2> QED BY <1>2, <2>1
<1>7. Idle \in Calls /\ Idle.at = "idle"
    BY DEF Idle, Calls
<1>8. PICK r \in Calls : r = Idle
    BY <1>7
<1>9. n = Cardinality(Reads(t, p)) + (IF r.at = "reader" THEN 1 ELSE 0)
    BY <1>3, <1>4, <1>7, <1>8
<1> QED BY <1>2, <1>4, <1>6, <1>7, <1>8, <1>9, Recount

-----------------------------------------------------------------------------
(* A call gives a block back that it owns.                                  *)
LEMMA GiveBack ==
    ASSUME StreamsInv, NEW t \in Threads, NEW b \in Owned(t), used' = used \ {b},
           NEW r \in Calls, call' = [call EXCEPT ![t] = r],
           Unattached(call[t]), Unattached(r), r.at # "link", r.at # "destroy",
           Owned(t)' = Owned(t) \ {b},
           pipe' \in [Blocks -> Pipes \cup {NoPipe}],
           \A c \in Blocks \ {b} : pipe'[c] = pipe[c],
           UNCHANGED <<g_streams, handles>>
    PROVE  StreamsInv'
<1>1. /\ b \in used /\ b \notin Linked
      /\ \A u \in Threads \ {t} : b \notin Owned(u)
      /\ \A u \in Threads : \A h \in handles[u] : h.block # b
    BY DEF StreamsInv, OwnedApart
<1>2. /\ Linked \subseteq used /\ used \subseteq Blocks
      /\ \A u \in Threads : Owned(u) \subseteq used
      /\ \A u \in Threads : \A h \in handles[u] : h.block \in used
    BY DEF StreamsInv, TypeOK, ListSound, OwnedApart, HandlesSound
<1>3. /\ call'[t] = r
      /\ \A u \in Threads \ {t} : call'[u] = call[u] /\ Owned(u)' = Owned(u)
    BY OneCall DEF StreamsInv
<1>4. Linked' = Linked
    BY DEF Linked
<1>5. TypeOK'
    BY DEF StreamsInv, TypeOK
<1>6. /\ ListSound' /\ HandlesSound' /\ CallsSound'
      /\ WriterCounted' /\ ReadersCounted' /\ LinkedInUse'
    <2>1. \A c \in Linked : pipe'[c] = pipe[c] /\ c \in used'
        BY <1>1, <1>2
    <2>2. \A u \in Threads : \A h \in handles[u] : h.block \in used'
        BY <1>1, <1>2
    <2>3. \A u \in Threads \ {t} : \A c \in Owned(u) : pipe'[c] = pipe[c]
        BY <1>1, <1>2
    <2> QED BY <2>1, <2>2, <2>3, OffListStep
<1>7. OwnedApart'
    <2> SUFFICES ASSUME NEW u \in Threads
                 PROVE  /\ \A c \in Owned(u)' : c \in used' /\ c \notin Linked'
                        /\ \A v \in Threads : \A c \in Owned(u)' : c \in Owned(v)' => u = v
                        /\ \A v \in Threads : \A h \in handles'[v] : h.block \notin Owned(u)'
                        /\ call'[u].at = "destroy" /\ call'[u].release =>
                               call'[u].handle # call'[u].pipe
        BY DEF OwnedApart
    <2>1. \A v \in Threads : Owned(v)' \subseteq Owned(v) /\ b \notin Owned(v)'
        BY <1>1, <1>3
    <2>2. call'[u].at = "destroy" => call'[u] = call[u]
        BY <1>3
    <2>3. \A c \in Owned(u)' : c \in used' /\ c \notin Linked'
        BY <1>2, <1>4, <2>1 DEF StreamsInv, OwnedApart
    <2>4. \A v \in Threads : \A c \in Owned(u)' : c \in Owned(v)' => u = v
        BY <2>1 DEF StreamsInv, OwnedApart
    <2>5. \A v \in Threads : \A h \in handles'[v] : h.block \notin Owned(u)'
        BY <2>1 DEF StreamsInv, OwnedApart
    <2> QED BY <2>2, <2>3, <2>4, <2>5 DEF StreamsInv, OwnedApart
<1>8. Accounted'
    <2>1. \A u \in Threads : Owned(u) \ {b} \subseteq Owned(u)'
        BY <1>3
    <2> QED BY <1>4, <2>1 DEF StreamsInv, Accounted
<1> QED BY <1>5, <1>6, <1>7, <1>8 DEF StreamsInv

LEMMA FreePipeStep ==
    ASSUME StreamsInv, NEW t \in Threads, FreePipe(t)
    PROVE  StreamsInv'
<1>1. PICK p \in Blocks : p = call[t].pipe
    BY CallShape DEF FreePipe, In, StreamsInv
<1>2. /\ call[t].at = "drop" /\ Owned(t) = {p} /\ used' = used \ {p} /\ Returns(t)
      /\ pipe' = [pipe EXCEPT ![p] = NoPipe] /\ UNCHANGED <<g_streams, handles>>
    BY <1>1 DEF FreePipe, In, Return, Owned
<1>3. PICK r \in Calls : r = Idle
    BY DEF Calls
<1>4. r.at = "idle" /\ call' = [call EXCEPT ![t] = r]
    BY <1>2, <1>3 DEF Idle, Returns
<1>5. Owned(t)' = {}
    <2>1. call'[t].at = "idle"
        BY <1>2, ReturnsStep DEF StreamsInv
    <2> QED BY <2>1 DEF Owned
<1>6. /\ pipe' \in [Blocks -> Pipes \cup {NoPipe}]
      /\ \A c \in Blocks \ {p} : pipe'[c] = pipe[c]
    BY <1>2 DEF StreamsInv, TypeOK
<1>7. Unattached(call[t]) /\ Unattached(r)
    BY <1>2, <1>4 DEF Unattached
<1> QED BY <1>2, <1>4, <1>5, <1>6, <1>7, GiveBack

LEMMA DestroyStep ==
    ASSUME StreamsInv, NEW t \in Threads, DestroyHandle(t)
    PROVE  StreamsInv'
<1>1. PICK b \in Blocks, p \in Blocks : b = call[t].handle /\ p = call[t].pipe
    BY CallShape DEF DestroyHandle, In, StreamsInv
<1>2. /\ call[t].at = "destroy" /\ used' = used \ {b} /\ UNCHANGED <<g_streams, pipe, handles>>
      /\ Owned(t) = {b} \cup (IF call[t].release THEN {p} ELSE {})
    BY <1>1 DEF DestroyHandle, In, Return, Owned
<1>3. PICK r \in Calls : r = IF call[t].release THEN [at |-> "drop", pipe |-> p] ELSE Idle
    BY DEF Calls
<1>4. call' = [call EXCEPT ![t] = r]
    BY <1>1, <1>3 DEF DestroyHandle, Returns
<1>5. r.at = IF call[t].release THEN "drop" ELSE "idle"
    BY <1>3 DEF Idle
<1>6. call'[t] = r
    BY <1>4 DEF StreamsInv, TypeOK
<1>7. Owned(t)' = Owned(t) \ {b}
    <2>1. CASE call[t].release
        <3>1. r.at = "drop" /\ r.pipe = p
            BY <1>3, <2>1
        <3>2. b # p
            BY <1>1, <1>2, <2>1 DEF StreamsInv, OwnedApart
        <3> QED BY <1>2, <1>6, <2>1, <3>1, <3>2 DEF Owned
    <2>2. CASE ~call[t].release
        BY <1>2, <1>5, <1>6, <2>2 DEF Owned
    <2> QED BY <2>1, <2>2
<1>8. pipe' \in [Blocks -> Pipes \cup {NoPipe}]
    BY <1>2 DEF StreamsInv, TypeOK
<1>9. Unattached(call[t]) /\ Unattached(r) /\ r.at # "link" /\ r.at # "destroy"
    BY <1>2, <1>5 DEF Unattached
<1> QED BY <1>2, <1>4, <1>7, <1>8, <1>9, GiveBack

-----------------------------------------------------------------------------
(* The pipe of a failed wopen leaves the list: nobody else can use it yet.  *)
LEMMA UnlinkStep ==
    ASSUME StreamsInv, NEW t \in Threads, WopenUnlink(t)
    PROVE  StreamsInv'
<1>0. PICK p \in Blocks : p = call[t].pipe
    BY CallShape DEF WopenUnlink, In, StreamsInv
<1>1. /\ call[t].at = "unlink" /\ p = call[t].pipe /\ UNCHANGED <<pipe, used, handles>>
      /\ TypeOK /\ p \in Linked /\ p \in used
      /\ pipe[p].source = t /\ pipe[p].readers = 0 /\ pipe[p].writer_open
      /\ tstream_unlink_pipe(p) /\ Goto(t, "drop")
    BY <1>0 DEF WopenUnlink, In, StreamsInv, CallsSound, ListSound
<1>2. g_streams' \in Seq(Blocks) /\ Linked' = Linked \ {p} /\ NoRepeats(g_streams')
    <2>1. g_streams \in Seq(Blocks) /\ NoRepeats(g_streams)
        BY <1>1 DEF StreamsInv, TypeOK, ListSound, NoRepeats
    <2> QED BY <1>1, <2>1, UnlinkEffect
<1>3. /\ call'[t].at = "drop" /\ call'[t].pipe = p
      /\ \A u \in Threads \ {t} :
            /\ call'[u] = call[u]
            /\ Owned(u)' = Owned(u)
            /\ \A b : (Creates(u, b)' <=> Creates(u, b)) /\ (Opens(u, b)' <=> Opens(u, b))
    BY <1>1, GotoStep
<1>4. Owned(t) = {} /\ Owned(t)' = {p}
    BY <1>1, <1>3 DEF Owned
<1>5. PICK d \in Threads : d = pipe[p].dest
    BY <1>1, LinkedPipe DEF StreamsInv
<1>6. Writes(t, p) = {} /\ Reads(d, p) = {} /\ ~Opens(d, p)
    <2>1. Creates(t, p)
        BY <1>1 DEF Creates
    <2>2. Writes(t, p) = {}
        BY <1>1, <2>1 DEF StreamsInv, WriterCounted, WriterOf
    <2>3. Cardinality(Reads(d, p)) + (IF Opens(d, p) THEN 1 ELSE 0) = 0
        BY <1>1, <1>5 DEF StreamsInv, ReadersCounted, ReadersOf
    <2>4. Cardinality(Reads(d, p)) = 0 /\ ~Opens(d, p)
        BY <2>3, ReadsFinite
    <2> QED BY <2>2, <2>4, ReadsFinite
<1>7. \A u \in Threads : \A h \in handles[u] : h.pipe # p
    BY <1>1, <1>5, <1>6 DEF StreamsInv, HandlesSound, Reads, Writes
<1>8. \A u \in Threads \ {t} : ~Creates(u, p) /\ ~Opens(u, p)
    BY <1>1, <1>5, <1>6, CreatorIs, OpenerIs DEF StreamsInv
<1>9. TypeOK'
    BY <1>1, <1>2, GotoType DEF TypeOK
<1>10. ListSound'
    BY <1>1, <1>2 DEF StreamsInv, ListSound, NoRepeats
<1>11. HandlesSound'
    BY <1>1, <1>2, <1>7 DEF StreamsInv, HandlesSound
<1>12. OwnedApart'
    <2>1. \A u \in Threads \ {t} : p \notin Owned(u)
        BY <1>1 DEF StreamsInv, OwnedApart
    <2>2. \A u \in Threads : \A h \in handles[u] : h.block # p
        BY <1>1 DEF StreamsInv, HandlesSound
    <2> QED BY <1>1, <1>2, <1>3, <1>4, <2>1, <2>2 DEF StreamsInv, OwnedApart
<1>13. CallsSound'
    <2>1. \A u \in Threads \ {t} :
             call[u].at \in {"handle", "unlink", "reader", "undo"} => call[u].pipe # p
        BY <1>8 DEF Creates, Opens
    <2> QED BY <1>1, <1>2, <1>3, <2>1 DEF StreamsInv, CallsSound
<1>14. \A u \in Threads : \A b : Reads(u, b)' = Reads(u, b) /\ Writes(u, b)' = Writes(u, b)
    BY <1>1 DEF Reads, Writes
<1>15. \A b : b # p => (Creates(t, b)' <=> Creates(t, b)) /\ (Opens(t, b)' <=> Opens(t, b))
    BY <1>1, <1>3 DEF Creates, Opens
<1>16. WriterCounted' /\ ReadersCounted'
    <2> SUFFICES ASSUME NEW b \in Linked \ {p}
                 PROVE  WriterOf(b, pipe[b].source)' /\ ReadersOf(b, pipe[b].dest)'
        BY <1>2 DEF WriterCounted, ReadersCounted
    <2>1. pipe[b].source \in Threads /\ pipe[b].dest \in Threads
        BY LinkedPipe DEF StreamsInv
    <2> QED BY <1>1, <1>3, <1>14, <1>15, <2>1, WriterKept, ReadersKept
<1>17. LinkedInUse'
    BY <1>1, <1>2 DEF StreamsInv, LinkedInUse
<1>18. Accounted'
    BY <1>1, <1>2, <1>3, <1>4 DEF StreamsInv, Accounted
<1> QED BY <1>9, <1>10, <1>11, <1>12, <1>13, <1>16, <1>17, <1>18 DEF StreamsInv

-----------------------------------------------------------------------------
(* The section of tstream_close() takes handle h out of its pipe p, of      *)
(* sender s and reader d.                                                   *)
LEMMA CloseCounts ==
    ASSUME StreamsInv, NEW t \in Threads, NEW h \in handles[t], tstream_close(t, h),
           NEW p, p = h.pipe, NEW s, s = pipe[p].source, NEW d, d = pipe[p].dest
    PROVE  /\ p \in Linked /\ p \in Blocks /\ s \in Threads /\ d \in Threads
           /\ t = IF h.writer THEN s ELSE d
           /\ pipe'[p] \in Pipes /\ pipe'[p].source = s /\ pipe'[p].dest = d
           /\ h.writer => pipe'[p].readers = pipe[p].readers
           /\ ~h.writer => pipe'[p].writer_open = pipe[p].writer_open
           /\ pipe' \in [Blocks -> Pipes \cup {NoPipe}]
           /\ \A b \in Blocks \ {p} : pipe'[b] = pipe[b]
           /\ pipe'[p].writer_open <=> Creates(s, p)' \/ Writes(s, p)' # {}
           /\ Creates(s, p)' => Writes(s, p)' = {}
           /\ \A k, l \in Writes(s, p)' : k = l
           /\ pipe'[p].readers = Cardinality(Reads(d, p)') + (IF Opens(d, p)' THEN 1 ELSE 0)
           /\ LastOut(h) <=> ~pipe'[p].writer_open /\ pipe'[p].readers = 0
<1>1. /\ call[t].at = "idle" /\ call'[t].at = "destroy"
      /\ \A u \in Threads \ {t} :
             \A b : (Creates(u, b)' <=> Creates(u, b)) /\ (Opens(u, b)' <=> Opens(u, b))
    <2>1. PICK r : r = [at |-> "destroy", handle |-> h.block, pipe |-> h.pipe,
                        release |-> LastOut(h)]
        OBVIOUS
    <2>2. call[t].at = "idle" /\ call' = [call EXCEPT ![t] = r] /\ r.at = "destroy"
        BY <2>1 DEF tstream_close, In
    <2> QED BY <2>2, OneCall DEF StreamsInv
<1>2. /\ ~Creates(t, p) /\ ~Opens(t, p) /\ ~Creates(t, p)' /\ ~Opens(t, p)'
    BY <1>1 DEF Creates, Opens
<1>3. /\ p \in Linked /\ p \in Blocks /\ pipe[p] \in Pipes
      /\ t = IF h.writer THEN s ELSE d
      /\ h \in Handles /\ h.writer \in BOOLEAN
    BY DEF StreamsInv, TypeOK, ListSound, HandlesSound, Handles
<1>4. /\ s \in Threads /\ d \in Threads /\ pipe[p].readers \in Nat
      /\ pipe[p].writer_open \in BOOLEAN
    BY <1>3 DEF Pipes
<1>5. /\ handles'[t] = handles[t] \ {h}
      /\ \A u \in Threads \ {t} : handles'[u] = handles[u]
      /\ pipe' = [pipe EXCEPT ![p] = Closed(h)]
    BY DEF tstream_close, StreamsInv, TypeOK
<1>6. pipe'[p] = Closed(h)
    BY <1>3, <1>5 DEF StreamsInv, TypeOK
<1>7. /\ pipe[p].writer_open <=> Creates(s, p) \/ Writes(s, p) # {}
      /\ Creates(s, p) => Writes(s, p) = {}
      /\ \A k, l \in Writes(s, p) : k = l
      /\ pipe[p].readers = Cardinality(Reads(d, p)) + (IF Opens(d, p) THEN 1 ELSE 0)
    BY <1>3 DEF StreamsInv, WriterCounted, WriterOf, ReadersCounted, ReadersOf
<1>8. CASE h.writer
    <2>1. t = s /\ h \in Writes(s, p) /\ pipe[p].writer_open
        BY <1>3, <1>7, <1>8 DEF Writes
    <2>2. Writes(s, p)' = {}
        BY <1>5, <1>7, <2>1 DEF Writes
    <2>3. Reads(d, p)' = Reads(d, p)
        BY <1>4, <1>5, <1>8 DEF Reads
    <2>4. Opens(d, p)' <=> Opens(d, p)
        BY <1>1, <1>2, <1>4
    <2>5. /\ pipe'[p] \in Pipes /\ pipe'[p].source = s /\ pipe'[p].dest = d
          /\ pipe'[p].readers = pipe[p].readers /\ pipe'[p].writer_open = FALSE
        BY <1>3, <1>6, <1>8 DEF Closed, Pipes
    <2>6. Counted(h)
        BY <1>8, <2>1 DEF Counted
    <2>7. LastOut(h) <=> ~pipe'[p].writer_open /\ pipe'[p].readers = 0
        BY <1>6, <2>6 DEF LastOut
    <2>8. /\ pipe' \in [Blocks -> Pipes \cup {NoPipe}]
          /\ \A b \in Blocks \ {p} : pipe'[b] = pipe[b]
        BY <1>3, <1>5, <1>6, <2>5 DEF StreamsInv, TypeOK
    <2>9. pipe'[p].readers = Cardinality(Reads(d, p)') + (IF Opens(d, p)' THEN 1 ELSE 0)
        BY <1>7, <2>3, <2>4, <2>5
    <2> QED BY <1>2, <1>3, <1>4, <1>8, <2>1, <2>2, <2>5, <2>7, <2>8, <2>9
<1>9. CASE ~h.writer
    <2>1. t = d /\ h \in Reads(d, p)
        BY <1>3, <1>9 DEF Reads
    <2>2. Reads(d, p)' = Reads(d, p) \ {h}
        BY <1>5, <2>1 DEF Reads
    <2>3. Writes(s, p)' = Writes(s, p)
        BY <1>4, <1>5, <1>9 DEF Writes
    <2>4. Creates(s, p)' <=> Creates(s, p)
        BY <1>1, <1>2, <1>4
    <2>5. /\ IsFiniteSet(Reads(d, p)) /\ Cardinality(Reads(d, p)) \in Nat
          /\ Cardinality(Reads(d, p)) # 0
        BY <1>4, <2>1, ReadsFinite
    <2>6. Cardinality(Reads(d, p)') = Cardinality(Reads(d, p)) - 1
        BY <2>1, <2>2, <2>5, FS_RemoveElement
    <2>7. pipe[p].readers = Cardinality(Reads(d, p)) /\ pipe[p].readers > 0
        BY <1>2, <1>7, <2>1, <2>5
    <2>8. /\ pipe'[p] \in Pipes /\ pipe'[p].source = s /\ pipe'[p].dest = d
          /\ pipe'[p].readers = pipe[p].readers - 1
          /\ pipe'[p].writer_open = pipe[p].writer_open
        BY <1>3, <1>4, <1>6, <1>9, <2>7 DEF Closed, Pipes
    <2>9. Counted(h)
        BY <1>9, <2>7 DEF Counted
    <2>10. LastOut(h) <=> ~pipe'[p].writer_open /\ pipe'[p].readers = 0
        BY <1>6, <2>9 DEF LastOut
    <2>11. /\ pipe' \in [Blocks -> Pipes \cup {NoPipe}]
           /\ \A b \in Blocks \ {p} : pipe'[b] = pipe[b]
        BY <1>3, <1>5, <1>6, <2>8 DEF StreamsInv, TypeOK
    <2>12. pipe'[p].readers = Cardinality(Reads(d, p)') + (IF Opens(d, p)' THEN 1 ELSE 0)
        <3>1. ~Opens(d, p)'
            BY <1>2, <2>1
        <3> QED BY <2>5, <2>6, <2>7, <2>8, <3>1
    <2>13. /\ pipe'[p].writer_open <=> Creates(s, p)' \/ Writes(s, p)' # {}
           /\ Creates(s, p)' => Writes(s, p)' = {}
           /\ \A k, l \in Writes(s, p)' : k = l
        BY <1>7, <2>3, <2>4, <2>8
    <2> QED BY <1>3, <1>4, <1>9, <2>8, <2>10, <2>11, <2>12, <2>13
<1> QED BY <1>8, <1>9

LEMMA CloseStep ==
    ASSUME StreamsInv, ~LateFailures, NEW t \in Threads, NEW h \in handles[t],
           tstream_close(t, h)
    PROVE  StreamsInv'
<1>0. PICK p, s, d : p = h.pipe /\ s = pipe[p].source /\ d = pipe[p].dest
    OBVIOUS
<1>1. /\ p \in Linked /\ p \in Blocks /\ s \in Threads /\ d \in Threads
      /\ t = IF h.writer THEN s ELSE d
      /\ pipe'[p] \in Pipes /\ pipe'[p].source = s /\ pipe'[p].dest = d
      /\ h.writer => pipe'[p].readers = pipe[p].readers
      /\ ~h.writer => pipe'[p].writer_open = pipe[p].writer_open
      /\ pipe' \in [Blocks -> Pipes \cup {NoPipe}]
      /\ \A b \in Blocks \ {p} : pipe'[b] = pipe[b]
      /\ pipe'[p].writer_open <=> Creates(s, p)' \/ Writes(s, p)' # {}
      /\ Creates(s, p)' => Writes(s, p)' = {}
      /\ \A k, l \in Writes(s, p)' : k = l
      /\ pipe'[p].readers = Cardinality(Reads(d, p)') + (IF Opens(d, p)' THEN 1 ELSE 0)
      /\ LastOut(h) <=> ~pipe'[p].writer_open /\ pipe'[p].readers = 0
    BY <1>0, CloseCounts
<1>2. /\ UNCHANGED used /\ handles' \in [Threads -> SUBSET Handles]
      /\ handles'[t] = handles[t] \ {h}
      /\ \A u \in Threads \ {t} : handles'[u] = handles[u]
    BY DEF tstream_close, StreamsInv, TypeOK
<1>3. PICK last \in BOOLEAN : last <=> LastOut(h)
    OBVIOUS
<1>4. PICK b \in Blocks : b = h.block
    BY DEF StreamsInv, TypeOK, Handles
<1>5. PICK r \in Calls : r = [at |-> "destroy", handle |-> b, pipe |-> p, release |-> last]
    BY <1>1 DEF Calls
<1>6. /\ r.at = "destroy" /\ r.handle = b /\ r.pipe = p /\ r.release = last
      /\ call' = [call EXCEPT ![t] = r] /\ call[t].at = "idle"
    <2>1. LastOut(h) \in BOOLEAN
        BY DEF LastOut
    <2>2. last = LastOut(h)
        BY <1>3, <2>1
    <2> QED BY <1>0, <1>4, <1>5, <2>2 DEF tstream_close, In
<1>7. /\ call'[t] = r /\ call' \in [Threads -> Calls]
      /\ \A u \in Threads \ {t} :
            /\ call'[u] = call[u]
            /\ Owned(u)' = Owned(u)
            /\ \A c : (Creates(u, c)' <=> Creates(u, c)) /\ (Opens(u, c)' <=> Opens(u, c))
    <2>1. TypeOK
        BY DEF StreamsInv
    <2>2. call' \in [Threads -> Calls]
        BY <1>6, <2>1 DEF TypeOK
    <2> QED BY <1>6, <2>1, <2>2, OneCall
<1>8. Owned(t) = {} /\ Owned(t)' = {b} \cup (IF last THEN {p} ELSE {})
    BY <1>6, <1>7 DEF Owned
<1>9. /\ \A c : ~Creates(t, c) /\ ~Creates(t, c)' /\ ~Opens(t, c) /\ ~Opens(t, c)'
      /\ \A u \in Threads : \A c : c # p => /\ Reads(u, c)' = Reads(u, c)
                                                    /\ Writes(u, c)' = Writes(u, c)
    <2>1. \A c : ~Creates(t, c) /\ ~Creates(t, c)' /\ ~Opens(t, c) /\ ~Opens(t, c)'
        BY <1>6, <1>7 DEF Creates, Opens
    <2>2. \A u \in Threads : \A c : c # p => /\ Reads(u, c)' = Reads(u, c)
                                                    /\ Writes(u, c)' = Writes(u, c)
        BY <1>0, <1>2 DEF Reads, Writes
    <2> QED BY <2>1, <2>2
<1>10. /\ b \in used /\ b \notin Linked /\ p \in used /\ b # p
       /\ \A u \in Threads : b \notin Owned(u) /\ p \notin Owned(u)
       /\ \A u \in Threads : \A k \in handles'[u] : k.block # b /\ k.block # p
    <2>1. b \in used /\ b \notin Linked /\ p \in used /\ b # p
        BY <1>1, <1>4 DEF StreamsInv, HandlesSound, ListSound
    <2>2. \A u \in Threads : b \notin Owned(u) /\ p \notin Owned(u)
        BY <1>1, <1>4 DEF StreamsInv, OwnedApart
    <2>3. \A u \in Threads : \A k \in handles'[u] : k \in handles[u] /\ (u = t => k # h)
        BY <1>2
    <2>4. \A u \in Threads : \A k \in handles'[u] : k.block # b /\ k.block # p
        BY <1>1, <1>4, <2>3 DEF StreamsInv, HandlesSound
    <2> QED BY <2>1, <2>2, <2>4
<1>11. /\ Linked' = IF last THEN Linked \ {p} ELSE Linked
       /\ g_streams' \in Seq(Blocks) /\ NoRepeats(g_streams')
    <2>1. g_streams \in Seq(Blocks) /\ NoRepeats(g_streams)
        BY DEF StreamsInv, TypeOK, ListSound, NoRepeats
    <2>2. CASE last
        <3>1. tstream_unlink_pipe(p)
            BY <1>0, <1>3, <2>2 DEF tstream_close
        <3> QED BY <1>1, <2>1, <2>2, <3>1, UnlinkEffect
    <2>3. CASE ~last
        <3>1. g_streams' = g_streams
            BY <1>3, <2>3 DEF tstream_close
        <3> QED BY <2>1, <2>3, <3>1 DEF Linked
    <2> QED BY <2>2, <2>3
<1>12. last => /\ Writes(s, p)' = {} /\ Reads(d, p)' = {}
               /\ ~Creates(s, p)' /\ ~Opens(d, p)'
    <2> SUFFICES ASSUME last
                 PROVE  /\ Writes(s, p)' = {} /\ Reads(d, p)' = {}
                        /\ ~Creates(s, p)' /\ ~Opens(d, p)'
        OBVIOUS
    <2>1. ~pipe'[p].writer_open /\ pipe'[p].readers = 0
        BY <1>1, <1>3
    <2>2. Writes(s, p)' = {} /\ ~Creates(s, p)'
        BY <1>1, <2>1
    <2>3. IsFiniteSet(Reads(d, p)')
        <3>1. IsFiniteSet(Reads(d, p))
            BY <1>1, ReadsFinite
        <3>2. handles'[d] \subseteq handles[d]
            BY <1>1, <1>2
        <3>3. Reads(d, p)' \subseteq Reads(d, p)
            BY <3>2 DEF Reads
        <3> QED BY <3>1, <3>3, FS_Subset
    <2>4. Cardinality(Reads(d, p)') \in Nat
        BY <2>3, FS_CardinalityType
    <2>5. Cardinality(Reads(d, p)') = 0 /\ ~Opens(d, p)'
        BY <1>1, <2>1, <2>4
    <2>6. Reads(d, p)' = {}
        BY <2>3, <2>5, FS_EmptySet
    <2> QED BY <2>2, <2>5, <2>6
<1>13. \A c \in Linked : /\ pipe'[c].source = pipe[c].source /\ pipe'[c].dest = pipe[c].dest
                         /\ pipe'[c] \in Pipes /\ c \in Blocks
    BY <1>0, <1>1 DEF StreamsInv, TypeOK, ListSound
<1>14. Linked' \subseteq Linked /\ (last => p \notin Linked')
       /\ \A c \in Linked : c # p => c \in Linked'
    BY <1>11
<1>15. TypeOK'
    BY <1>1, <1>2, <1>7, <1>11 DEF StreamsInv, TypeOK
<1>16. ListSound'
    BY <1>2, <1>11, <1>13, <1>14 DEF StreamsInv, ListSound, NoRepeats
<1>17. HandlesSound'
    <2>1. \A u \in Threads : handles'[u] \subseteq handles[u] /\ IsFiniteSet(handles'[u])
        BY <1>2, FS_Subset DEF StreamsInv, HandlesSound
    <2>2. ASSUME NEW u \in Threads, NEW k \in handles'[u], last PROVE k.pipe # p
        <3> SUFFICES ASSUME k.pipe = p PROVE FALSE
            OBVIOUS
        <3>1. u = IF k.writer THEN s ELSE d
            BY <1>0, <2>1 DEF StreamsInv, HandlesSound
        <3>2. CASE k.writer
            BY <1>12, <2>2, <3>1, <3>2 DEF Writes
        <3>3. CASE ~k.writer
            BY <1>12, <2>2, <3>1, <3>3 DEF Reads
        <3> QED BY <3>2, <3>3
    <2>3. ASSUME NEW u \in Threads, NEW k \in handles'[u]
          PROVE  /\ k.pipe \in Linked'
                 /\ u = IF k.writer THEN pipe'[k.pipe].source ELSE pipe'[k.pipe].dest
                 /\ k.block \in used' /\ k.block \notin Linked'
                 /\ \A v \in Threads : \A l \in handles'[v] : k.block = l.block => u = v /\ k = l
        <3>1. /\ k.pipe \in Linked
              /\ u = IF k.writer THEN pipe[k.pipe].source ELSE pipe[k.pipe].dest
              /\ k.block \in used /\ k.block \notin Linked
              /\ \A v \in Threads : \A l \in handles[v] : k.block = l.block => u = v /\ k = l
            BY <2>1 DEF StreamsInv, HandlesSound
        <3>2. k.pipe \in Linked'
            BY <1>11, <2>2, <3>1
        <3> QED BY <1>2, <1>13, <1>14, <2>1, <3>1, <3>2
    <2> QED BY <2>1, <2>3 DEF HandlesSound
<1>18. OwnedApart'
    <2> SUFFICES ASSUME NEW u \in Threads
                 PROVE  /\ \A c \in Owned(u)' : c \in used' /\ c \notin Linked'
                        /\ \A v \in Threads : \A c \in Owned(u)' : c \in Owned(v)' => u = v
                        /\ \A v \in Threads : \A k \in handles'[v] : k.block \notin Owned(u)'
                        /\ call'[u].at = "destroy" /\ call'[u].release =>
                               call'[u].handle # call'[u].pipe
        BY DEF OwnedApart
    <2>1. \A v \in Threads \ {t} : \A c \in Owned(v)' : c # b /\ c # p
        BY <1>7, <1>10
    <2>2. \A c \in Owned(t)' : c = b \/ (c = p /\ last)
        BY <1>8
    <2>3. CASE u = t
        <3>1. \A c \in Owned(u)' : c \in used' /\ c \notin Linked'
            BY <1>2, <1>10, <1>14, <2>2, <2>3
        <3>2. \A v \in Threads : \A c \in Owned(u)' : c \in Owned(v)' => u = v
            BY <2>1, <2>2, <2>3
        <3>3. \A v \in Threads : \A k \in handles'[v] : k.block \notin Owned(u)'
            BY <1>10, <2>2, <2>3
        <3> QED BY <1>6, <1>7, <1>10, <2>3, <3>1, <3>2, <3>3
    <2>4. CASE u # t
        <3>1. Owned(u)' = Owned(u) /\ call'[u] = call[u]
            BY <1>7, <2>4
        <3>2. \A c \in Owned(u)' : c \in used' /\ c \notin Linked'
            BY <1>2, <1>14, <3>1 DEF StreamsInv, OwnedApart
        <3>3. \A v \in Threads : \A c \in Owned(u)' : c \in Owned(v)' => u = v
            <4> SUFFICES ASSUME NEW v \in Threads, NEW c \in Owned(u)', c \in Owned(v)'
                         PROVE  u = v
                OBVIOUS
            <4>1. v # t
                BY <2>1, <2>2, <2>4
            <4> QED BY <1>7, <3>1, <4>1 DEF StreamsInv, OwnedApart
        <3>4. \A v \in Threads : \A k \in handles'[v] : k.block \notin Owned(u)'
            BY <1>2, <3>1 DEF StreamsInv, OwnedApart
        <3> QED BY <3>1, <3>2, <3>3, <3>4 DEF StreamsInv, OwnedApart
    <2> QED BY <2>3, <2>4
<1>19. CallsSound'
    <2> SUFFICES ASSUME NEW u \in Threads
                 PROVE  /\ call'[u].at = "link" => /\ pipe'[call'[u].pipe] \in Pipes
                                                   /\ pipe'[call'[u].pipe].source = u
                                                   /\ pipe'[call'[u].pipe].readers = 0
                                                   /\ pipe'[call'[u].pipe].writer_open
                        /\ call'[u].at \in {"handle", "unlink"} =>
                               /\ call'[u].pipe \in Linked'
                               /\ pipe'[call'[u].pipe].source = u
                               /\ pipe'[call'[u].pipe].writer_open
                        /\ call'[u].at = "unlink" => pipe'[call'[u].pipe].readers = 0
                        /\ call'[u].at \in {"reader", "undo"} => /\ call'[u].pipe \in Linked'
                                                                 /\ pipe'[call'[u].pipe].dest = u
                        /\ call'[u].at = "undo" => pipe'[call'[u].pipe].writer_open
        BY DEF CallsSound
    <2>1. CASE u = t
        BY <1>6, <1>7, <2>1
    <2>2. CASE u # t
        <3>1. call'[u] = call[u] /\ call[u].at \notin {"unlink", "undo"}
            BY <1>7, <2>2, NobodyFails DEF tstream_close, In
        <3>2. ASSUME call[u].at = "link"
              PROVE  /\ pipe'[call[u].pipe] \in Pipes /\ pipe'[call[u].pipe].source = u
                     /\ pipe'[call[u].pipe].readers = 0 /\ pipe'[call[u].pipe].writer_open
            <4>1. call[u].pipe \in Blocks /\ call[u].pipe \in Owned(u)
                BY <3>2, CallShape DEF StreamsInv, Owned
            <4>2. pipe'[call[u].pipe] = pipe[call[u].pipe]
                BY <1>1, <1>10, <4>1
            <4> QED BY <3>2, <4>2 DEF StreamsInv, CallsSound
        <3>3. ASSUME call[u].at = "handle"
              PROVE  /\ call[u].pipe \in Linked' /\ pipe'[call[u].pipe].source = u
                     /\ pipe'[call[u].pipe].writer_open
            <4>1. /\ call[u].pipe \in Linked /\ pipe[call[u].pipe].source = u
                  /\ pipe[call[u].pipe].writer_open
                BY <3>3 DEF StreamsInv, CallsSound
            <4>2. CASE call[u].pipe = p
                <5>1. s = u /\ Creates(u, p)'
                    BY <1>0, <1>7, <2>2, <3>3, <4>1, <4>2 DEF Creates
                <5> QED BY <1>1, <1>11, <1>12, <4>1, <4>2, <5>1
            <4>3. CASE call[u].pipe # p
                BY <1>1, <1>13, <1>14, <4>1, <4>3
            <4> QED BY <4>2, <4>3
        <3>4. ASSUME call[u].at = "reader"
              PROVE  call[u].pipe \in Linked' /\ pipe'[call[u].pipe].dest = u
            <4>1. call[u].pipe \in Linked /\ pipe[call[u].pipe].dest = u
                BY <3>4 DEF StreamsInv, CallsSound
            <4>2. CASE call[u].pipe = p
                <5>1. d = u /\ Opens(u, p)'
                    BY <1>0, <1>7, <2>2, <3>4, <4>1, <4>2 DEF Opens
                <5> QED BY <1>1, <1>11, <1>12, <4>1, <4>2, <5>1
            <4>3. CASE call[u].pipe # p
                BY <1>13, <1>14, <4>1, <4>3
            <4> QED BY <4>2, <4>3
        <3> QED BY <3>1, <3>2, <3>3, <3>4
    <2> QED BY <2>1, <2>2
<1>20. WriterCounted'
    <2> SUFFICES ASSUME NEW c \in Linked PROVE WriterOf(c, pipe[c].source)'
        BY <1>14 DEF WriterCounted
    <2>1. CASE c = p
        BY <1>1, <2>1, WriterIs
    <2>2. CASE c # p
        <3>1. pipe[c].source \in Threads /\ pipe'[c] = pipe[c]
            BY <1>1, <1>13, <2>2, LinkedPipe DEF StreamsInv
        <3> QED BY <1>7, <1>9, <2>2, <3>1, WriterKept
    <2> QED BY <2>1, <2>2
<1>21. ReadersCounted'
    <2> SUFFICES ASSUME NEW c \in Linked PROVE ReadersOf(c, pipe[c].dest)'
        BY <1>14 DEF ReadersCounted
    <2>1. CASE c = p
        BY <1>1, <2>1, ReadersAre
    <2>2. CASE c # p
        <3>1. pipe[c].dest \in Threads /\ pipe'[c] = pipe[c]
            BY <1>1, <1>13, <2>2, LinkedPipe DEF StreamsInv
        <3> QED BY <1>7, <1>9, <2>2, <3>1, ReadersKept
    <2> QED BY <2>1, <2>2
<1>22. LinkedInUse'
    <2> SUFFICES ASSUME NEW c \in Linked' PROVE pipe'[c].writer_open \/ pipe'[c].readers > 0
        BY DEF LinkedInUse
    <2>1. CASE c = p
        <3>1. ~last
            BY <1>14, <2>1
        <3>2. pipe'[p].writer_open \/ pipe'[p].readers # 0
            BY <1>1, <1>3, <3>1
        <3>3. pipe'[p].readers \in Nat
            BY <1>1 DEF Pipes
        <3> QED BY <2>1, <3>2, <3>3
    <2>2. CASE c # p
        <3>1. c \in Linked /\ pipe'[c] = pipe[c]
            BY <1>1, <1>13, <1>14, <2>2
        <3> QED BY <3>1 DEF StreamsInv, LinkedInUse
    <2> QED BY <2>1, <2>2
<1>23. Accounted'
    <2> SUFFICES ASSUME NEW c \in used
                 PROVE  \/ c \in Linked'
                        \/ \E u \in Threads : c \in Owned(u)'
                        \/ \E u \in Threads : \E k \in handles'[u] : k.block = c
        BY <1>2 DEF Accounted
    <2>1. CASE c \in Linked
        BY <1>8, <1>11, <2>1
    <2>2. CASE \E u \in Threads : c \in Owned(u)
        BY <1>7, <1>8, <2>2
    <2>3. CASE \E u \in Threads : \E k \in handles[u] : k.block = c
        BY <1>2, <1>4, <1>8, <2>3
    <2> QED BY <2>1, <2>2, <2>3 DEF StreamsInv, Accounted
<1> QED BY <1>15, <1>16, <1>17, <1>18, <1>19, <1>20, <1>21, <1>22, <1>23 DEF StreamsInv

-----------------------------------------------------------------------------
LEMMA StreamsInit == Init => StreamsInv
<1> SUFFICES ASSUME Init PROVE StreamsInv
    OBVIOUS
<1>1. /\ g_streams = <<>> /\ Linked = {} /\ used = {}
      /\ \A t \in Threads : handles[t] = {} /\ call[t] = Idle /\ call[t].at = "idle"
    BY DEF Init, Linked, ToSet, Idle
<1>2. \A t \in Threads : Owned(t) = {}
    BY <1>1 DEF Owned
<1>3. TypeOK
    BY DEF Init, TypeOK, Calls
<1>4. ListSound /\ WriterCounted /\ ReadersCounted /\ LinkedInUse /\ Accounted
    BY <1>1 DEF ListSound, WriterCounted, ReadersCounted, LinkedInUse, Accounted
<1>5. HandlesSound /\ OwnedApart /\ CallsSound
    BY <1>1, <1>2, FS_EmptySet DEF HandlesSound, OwnedApart, CallsSound
<1> QED BY <1>3, <1>4, <1>5 DEF StreamsInv

LEMMA StreamsStep ==
    ASSUME StreamsInv, ~LateFailures, [Next]_vars
    PROVE  StreamsInv'
<1>1. CASE UNCHANGED vars
    <2>1. UNCHANGED <<g_streams, pipe, used, handles, call>>
        BY <1>1 DEF vars
    <2>2. UNCHANGED <<TypeOK, ListSound, HandlesSound, OwnedApart, CallsSound>>
        BY <2>1 DEF TypeOK, ListSound, HandlesSound, OwnedApart, CallsSound, Linked, Owned
    <2>3. UNCHANGED <<WriterCounted, ReadersCounted, LinkedInUse, Accounted>>
        BY <2>1 DEF WriterCounted, WriterOf, ReadersCounted, ReadersOf, LinkedInUse, Accounted,
                    Linked, Owned, Creates, Opens, Reads, Writes
    <2> QED BY <2>2, <2>3 DEF StreamsInv
<1>2. ASSUME NEW t \in Threads, NEW dest \in Threads, tstream_wopen(t, dest) PROVE StreamsInv'
    BY <1>2, CallBegins
<1>3. ASSUME NEW t \in Threads, WopenAlloc(t) PROVE StreamsInv'
    BY <1>3, AllocStep
<1>4. ASSUME NEW t \in Threads, WopenLink(t) PROVE StreamsInv'
    BY <1>4, LinkStep
<1>5. ASSUME NEW t \in Threads, WopenHandle(t) PROVE StreamsInv'
    BY <1>5, WopenHandleStep
<1>6. ASSUME NEW t \in Threads, WopenUnlink(t) PROVE StreamsInv'
    BY <1>6, UnlinkStep
<1>7. ASSUME NEW t \in Threads, FreePipe(t) PROVE StreamsInv'
    BY <1>7, FreePipeStep
<1>8. ASSUME NEW t \in Threads, tstream_ropen(t) PROVE StreamsInv'
    BY <1>8, RopenStep
<1>9. ASSUME NEW t \in Threads, RopenHandle(t) PROVE StreamsInv'
    BY <1>9, RopenHandleStep
<1>10. ASSUME NEW t \in Threads, RopenUndo(t) PROVE StreamsInv'
    BY <1>10, UndoStep
<1>11. ASSUME NEW t \in Threads, NEW h \in handles[t], tstream_close(t, h) PROVE StreamsInv'
    BY <1>11, CloseStep
<1>12. ASSUME NEW t \in Threads, DestroyHandle(t) PROVE StreamsInv'
    BY <1>12, DestroyStep
<1>13. ASSUME NEW t \in Threads, ThreadEnds(t) PROVE StreamsInv'
    BY <1>13, CallBegins
<1> QED BY <1>1, <1>2, <1>3, <1>4, <1>5, <1>6, <1>7, <1>8, <1>9, <1>10, <1>11, <1>12, <1>13
        DEF Next

(* For any number of threads, blocks and handles, the list, the pipes, the  *)
(* handles and the calls agree with each other.                             *)
THEOREM StreamsInvariant ==
    ASSUME ~LateFailures
    PROVE  Spec => []StreamsInv
<1>1. StreamsInv /\ [Next]_vars => StreamsInv'
    BY StreamsStep
<1> QED BY <1>1, StreamsInit, PTL DEF Spec

(* The states of kstream.c have their types, whatever the threads open and  *)
(* close.                                                                   *)
THEOREM StreamTypes ==
    ASSUME ~LateFailures
    PROVE  Spec => []TypeOK
<1>1. StreamsInv => TypeOK
    BY DEF StreamsInv
<1> QED BY <1>1, StreamsInvariant, PTL

(* No two opens, however they interleave, link two pipes for one reader.    *)
THEOREM OneStream ==
    ASSUME ~LateFailures
    PROVE  Spec => []OneStreamPerReader
<1>1. StreamsInv => OneStreamPerReader
    <2> SUFFICES ASSUME StreamsInv, NEW m \in DOMAIN g_streams, NEW n \in DOMAIN g_streams,
                        pipe[g_streams[m]].dest = pipe[g_streams[n]].dest
                 PROVE  m = n
        BY DEF OneStreamPerReader
    <2>1. g_streams[m] \in Linked /\ g_streams[n] \in Linked
        BY DEF Linked, ToSet
    <2> QED BY <2>1 DEF StreamsInv, ListSound
<1> QED BY <1>1, StreamsInvariant, PTL

(* A handle leads to a pipe in use, of the thread that holds it.            *)
THEOREM HandlesAlwaysLead ==
    ASSUME ~LateFailures
    PROVE  Spec => []HandlesLead
<1>1. StreamsInv => HandlesLead
    BY DEF StreamsInv, HandlesSound, HandlesLead
<1> QED BY <1>1, StreamsInvariant, PTL

-----------------------------------------------------------------------------
(* The handles and the calls of a pipe are those of its two threads.        *)
LEMMA Users ==
    ASSUME StreamsInv, NEW b \in Linked
    PROVE  /\ ReaderHandles(b) = Reads(pipe[b].dest, b)
           /\ WriterHandles(b) = Writes(pipe[b].source, b)
           /\ OpeningReaders(b) = IF Opens(pipe[b].dest, b) THEN {pipe[b].dest} ELSE {}
           /\ OpeningWriters(b) = IF Creates(pipe[b].source, b) THEN {pipe[b].source} ELSE {}
<1>1. PICK s \in Threads, d \in Threads : s = pipe[b].source /\ d = pipe[b].dest
    BY LinkedPipe DEF StreamsInv
<1>2. \A t \in Threads : \A h \in handles[t] : h.pipe = b => t = IF h.writer THEN s ELSE d
    BY <1>1 DEF StreamsInv, HandlesSound
<1>3. ReaderHandles(b) = Reads(d, b) /\ WriterHandles(b) = Writes(s, b)
    BY <1>2 DEF ReaderHandles, WriterHandles, AllHandles, Reads, Writes
<1>4. /\ \A t \in Threads : Opens(t, b) => t = d
      /\ \A t \in Threads : Creates(t, b) => t = s
    BY <1>1, OpenerIs, CreatorIs DEF StreamsInv
<1>5. /\ OpeningReaders(b) = {t \in Threads : Opens(t, b)}
      /\ OpeningWriters(b) = {t \in Threads : Creates(t, b)}
    BY DEF OpeningReaders, OpeningWriters, Opens, Creates
<1> QED BY <1>1, <1>3, <1>4, <1>5

(* The counts of a pipe are the handles and the calls there are, so that    *)
(* the close that finds itself the last is.                                 *)
THEOREM CountsAlwaysMatch ==
    ASSUME ~LateFailures
    PROVE  Spec => []CountsMatch
<1>1. StreamsInv => CountsMatch
    <2> SUFFICES ASSUME StreamsInv, NEW b \in Linked
                 PROVE  /\ pipe[b].readers = Cardinality(ReaderHandles(b))
                                             + Cardinality(OpeningReaders(b))
                        /\ Cardinality(WriterHandles(b)) + Cardinality(OpeningWriters(b)) =
                               IF pipe[b].writer_open THEN 1 ELSE 0
        BY DEF CountsMatch
    <2>1. PICK s \in Threads, d \in Threads : s = pipe[b].source /\ d = pipe[b].dest
        BY LinkedPipe DEF StreamsInv
    <2>2. /\ ReaderHandles(b) = Reads(d, b) /\ WriterHandles(b) = Writes(s, b)
          /\ OpeningReaders(b) = IF Opens(d, b) THEN {d} ELSE {}
          /\ OpeningWriters(b) = IF Creates(s, b) THEN {s} ELSE {}
        BY <2>1, Users
    <2>3. WriterOf(b, s) /\ ReadersOf(b, d)
        BY <2>1 DEF StreamsInv, WriterCounted, ReadersCounted
    <2>4. Cardinality(OpeningReaders(b)) = IF Opens(d, b) THEN 1 ELSE 0
        BY <2>2, FS_EmptySet, FS_Singleton
    <2>5. Cardinality(OpeningWriters(b)) = IF Creates(s, b) THEN 1 ELSE 0
        BY <2>2, FS_EmptySet, FS_Singleton
    <2>6. Cardinality(WriterHandles(b)) = IF Writes(s, b) = {} THEN 0 ELSE 1
        <3>1. CASE Writes(s, b) = {}
            BY <2>2, <3>1, FS_EmptySet
        <3>2. CASE Writes(s, b) # {}
            <4>1. PICK h : Writes(s, b) = {h}
                BY <2>3, <3>2 DEF WriterOf
            <4> QED BY <2>2, <3>2, <4>1, FS_Singleton
        <3> QED BY <3>1, <3>2
    <2>7. pipe[b].readers = Cardinality(ReaderHandles(b)) + Cardinality(OpeningReaders(b))
        BY <2>2, <2>3, <2>4 DEF ReadersOf
    <2> QED BY <2>3, <2>5, <2>6, <2>7 DEF WriterOf
<1> QED BY <1>1, StreamsInvariant, PTL

(* No block of a stream is lost, however its opens and closes interleave    *)
(* and whichever of them run out of blocks.                                 *)
THEOREM BlocksAlwaysAccounted ==
    ASSUME ~LateFailures
    PROVE  Spec => []BlocksAccounted
<1>1. StreamsInv => BlocksAccounted
    <2> SUFFICES ASSUME StreamsInv, NEW b \in used
                 PROVE  \/ \E h \in AllHandles : h.block = b
                        \/ /\ b \in Linked
                           /\ \/ ReaderHandles(b) \cup WriterHandles(b) # {}
                              \/ OpeningReaders(b) \cup OpeningWriters(b) # {}
                        \/ \E t \in Threads : call[t].at \in {"link", "drop"} /\ call[t].pipe = b
                        \/ \E t \in Threads : /\ call[t].at = "destroy"
                                              /\ b = call[t].handle
                                                 \/ (b = call[t].pipe /\ call[t].release)
        BY DEF BlocksAccounted
    <2>1. CASE b \in Linked
        <3>1. PICK s \in Threads, d \in Threads : s = pipe[b].source /\ d = pipe[b].dest
            BY <2>1, LinkedPipe DEF StreamsInv
        <3>2. /\ ReaderHandles(b) = Reads(d, b) /\ WriterHandles(b) = Writes(s, b)
              /\ OpeningReaders(b) = IF Opens(d, b) THEN {d} ELSE {}
              /\ OpeningWriters(b) = IF Creates(s, b) THEN {s} ELSE {}
            BY <2>1, <3>1, Users
        <3>3. /\ WriterOf(b, s) /\ ReadersOf(b, d)
              /\ pipe[b].writer_open \/ pipe[b].readers > 0
            BY <2>1, <3>1 DEF StreamsInv, WriterCounted, ReadersCounted, LinkedInUse
        <3>4. CASE pipe[b].writer_open
            BY <2>1, <3>2, <3>3, <3>4 DEF WriterOf
        <3>5. CASE pipe[b].readers > 0
            <4>1. Reads(d, b) # {} \/ Opens(d, b)
                BY <3>3, <3>5, FS_EmptySet DEF ReadersOf
            <4> QED BY <2>1, <3>2, <4>1
        <3> QED BY <3>3, <3>4, <3>5
    <2>2. CASE \E t \in Threads : b \in Owned(t)
        BY <2>2 DEF Owned
    <2>3. CASE \E t \in Threads : \E h \in handles[t] : h.block = b
        BY <2>3 DEF AllHandles
    <2> QED BY <2>1, <2>2, <2>3 DEF StreamsInv, Accounted
<1> QED BY <1>1, StreamsInvariant, PTL

-----------------------------------------------------------------------------
(***************************************************************************)
(* The calls of module KStream implement the streams of module Streams, for *)
(* any number of threads, blocks and handles: the promise of ktstream.h     *)
(* holds however the calls interleave, as long as one that fails undoes     *)
(* what it did before another overtakes it.                                 *)
(***************************************************************************)

(* No call opens a stream from a thread to itself.                          *)
NotToOneself ==
    \A t \in Threads :
        /\ call[t].at = "alloc" => call[t].dest # t
        /\ call[t].at = "link" => pipe[call[t].pipe].dest # t

LEMMA OthersLink ==
    ASSUME StreamsInv, NEW t \in Threads, NEW u \in Threads \ {t}, call[u].at = "link"
    PROVE  /\ call[u].pipe \in Blocks /\ call[u].pipe \in used /\ call[u].pipe \notin Linked
           /\ call[u].pipe \notin Owned(t)
<1>1. call[u].pipe \in Blocks /\ call[u].pipe \in Owned(u)
    BY CallShape DEF StreamsInv, Owned
<1> QED BY <1>1 DEF StreamsInv, OwnedApart

LEMMA SelfKept ==
    ASSUME StreamsInv, NotToOneself, NEW t \in Threads, NEW r, call' = [call EXCEPT ![t] = r],
           r.at = "alloc" => r.dest # t,
           r.at = "link" => pipe'[r.pipe].dest # t,
           \A b \in used : b \notin Linked /\ b \notin Owned(t) => pipe'[b] = pipe[b]
    PROVE  NotToOneself'
<1>1. call'[t] = r /\ \A u \in Threads \ {t} : call'[u] = call[u]
    BY OneCall DEF StreamsInv
<1>2. \A u \in Threads \ {t} : call[u].at = "link" => pipe'[call[u].pipe] = pipe[call[u].pipe]
    BY OthersLink
<1> QED BY <1>1, <1>2 DEF NotToOneself

LEMMA SelfStep ==
    ASSUME StreamsInv, NotToOneself, [Next]_vars
    PROVE  NotToOneself'
<1>1. CASE UNCHANGED vars
    BY <1>1 DEF vars, NotToOneself
<1>2. ASSUME NEW t \in Threads, NEW r, call' = [call EXCEPT ![t] = r],
             r.at \notin {"alloc", "link"},
             \A b \in used : b \notin Linked /\ b \notin Owned(t) => pipe'[b] = pipe[b]
      PROVE  NotToOneself'
    BY <1>2, SelfKept
<1>3. ASSUME NEW t \in Threads, NEW at \in {"handle", "unlink", "drop", "reader", "undo"},
             Goto(t, at) \/ Returns(t), UNCHANGED pipe
      PROVE  NotToOneself'
    <2>1. PICK r : r = [at |-> at, pipe |-> call[t].pipe]
        OBVIOUS
    <2>2. PICK q : q = Idle
        OBVIOUS
    <2>3. /\ r.at \notin {"alloc", "link"} /\ q.at \notin {"alloc", "link"}
          /\ call' = [call EXCEPT ![t] = r] \/ call' = [call EXCEPT ![t] = q]
        BY <1>3, <2>1, <2>2 DEF Goto, Returns, Idle
    <2> QED BY <1>2, <1>3, <2>3
<1>4. ASSUME NEW t \in Threads, NEW dest \in Threads, tstream_wopen(t, dest) PROVE NotToOneself'
    <2>1. PICK r : r = [at |-> "alloc", dest |-> dest]
        OBVIOUS
    <2>2. call' = [call EXCEPT ![t] = r] /\ r.at = "alloc" /\ r.dest # t /\ UNCHANGED pipe
        BY <1>4, <2>1 DEF tstream_wopen
    <2> QED BY <2>2, SelfKept
<1>5. ASSUME NEW t \in Threads, WopenAlloc(t) PROVE NotToOneself'
    <2>1. CASE Returns(t) /\ UNCHANGED pipe
        BY <1>3, <2>1
    <2>2. ASSUME NEW b \in Blocks, Consume(b),
                 pipe' = [pipe EXCEPT ![b] = [source |-> t, dest |-> call[t].dest,
                                              readers |-> 0, writer_open |-> TRUE]],
                 call' = [call EXCEPT ![t] = [at |-> "link", pipe |-> b]]
          PROVE  NotToOneself'
        <3>1. PICK r : r = [at |-> "link", pipe |-> b]
            OBVIOUS
        <3>2. r.at = "link" /\ r.pipe = b /\ call' = [call EXCEPT ![t] = r]
            BY <2>2, <3>1
        <3>3. pipe'[b].dest = call[t].dest /\ call[t].dest # t
            BY <1>5, <2>2 DEF WopenAlloc, In, NotToOneself, StreamsInv, TypeOK
        <3>4. \A c \in used : pipe'[c] = pipe[c]
            BY <2>2 DEF Consume, StreamsInv, TypeOK
        <3> QED BY <3>2, <3>3, <3>4, SelfKept
    <2> QED BY <1>5, <2>1, <2>2 DEF WopenAlloc
<1>6. ASSUME NEW t \in Threads, WopenLink(t) PROVE NotToOneself'
    BY <1>3, <1>6 DEF WopenLink
<1>7. ASSUME NEW t \in Threads, WopenHandle(t) PROVE NotToOneself'
    BY <1>3, <1>7 DEF WopenHandle
<1>8. ASSUME NEW t \in Threads, WopenUnlink(t) PROVE NotToOneself'
    BY <1>3, <1>8 DEF WopenUnlink
<1>9. ASSUME NEW t \in Threads, FreePipe(t) PROVE NotToOneself'
    <2>1. PICK r : r = Idle
        OBVIOUS
    <2>2. r.at = "idle" /\ call' = [call EXCEPT ![t] = r] /\ call[t].pipe \in Owned(t)
        BY <1>9, <2>1 DEF FreePipe, In, Returns, Idle, Owned
    <2>3. \A b \in used : b # call[t].pipe => pipe'[b] = pipe[b]
        BY <1>9 DEF FreePipe, StreamsInv, TypeOK
    <2> QED BY <1>2, <2>2, <2>3
<1>10. ASSUME NEW t \in Threads, tstream_ropen(t) PROVE NotToOneself'
    <2>1. PICK p : p = tstream_find_pipe(t)
        OBVIOUS
    <2>2. PICK r : r = [at |-> "reader", pipe |-> p]
        OBVIOUS
    <2>3. /\ call' = [call EXCEPT ![t] = r] /\ r.at = "reader"
          /\ pipe' = [pipe EXCEPT ![p].readers = @ + 1] /\ Matches(t) # {}
        BY <1>10, <2>1, <2>2 DEF tstream_ropen
    <2>4. p \in Linked
        BY <2>1, <2>3, FindEffect DEF StreamsInv, TypeOK
    <2>5. \A b \in used : b # p => pipe'[b] = pipe[b]
        BY <2>3 DEF StreamsInv, TypeOK
    <2> QED BY <1>2, <2>3, <2>4, <2>5
<1>11. ASSUME NEW t \in Threads, RopenHandle(t) PROVE NotToOneself'
    BY <1>3, <1>11 DEF RopenHandle
<1>12. ASSUME NEW t \in Threads, RopenUndo(t) PROVE NotToOneself'
    <2>1. PICK r : r = Idle
        OBVIOUS
    <2>2. r.at = "idle" /\ call' = [call EXCEPT ![t] = r] /\ call[t].pipe \in Linked
        BY <1>12, <2>1 DEF RopenUndo, In, Returns, Idle, StreamsInv, CallsSound
    <2>3. \A b \in used : b # call[t].pipe => pipe'[b] = pipe[b]
        BY <1>12 DEF RopenUndo, StreamsInv, TypeOK
    <2> QED BY <1>2, <2>2, <2>3
<1>13. ASSUME NEW t \in Threads, NEW h \in handles[t], tstream_close(t, h) PROVE NotToOneself'
    <2>1. PICK r : r = [at |-> "destroy", handle |-> h.block, pipe |-> h.pipe,
                        release |-> LastOut(h)]
        OBVIOUS
    <2>2. call' = [call EXCEPT ![t] = r] /\ r.at = "destroy" /\ h.pipe \in Linked
        BY <1>13, <2>1 DEF tstream_close, StreamsInv, HandlesSound
    <2>3. \A b \in used : b # h.pipe => pipe'[b] = pipe[b]
        BY <1>13 DEF tstream_close, StreamsInv, TypeOK
    <2> QED BY <1>2, <2>2, <2>3
<1>14. ASSUME NEW t \in Threads, DestroyHandle(t) PROVE NotToOneself'
    <2>1. PICK r : r = IF call[t].release THEN [at |-> "drop", pipe |-> call[t].pipe] ELSE Idle
        OBVIOUS
    <2>2. r.at \in {"drop", "idle"} /\ call' = [call EXCEPT ![t] = r] /\ UNCHANGED pipe
        BY <1>14, <2>1 DEF DestroyHandle, Returns, Idle
    <2> QED BY <1>2, <2>2
<1>15. ASSUME NEW t \in Threads, ThreadEnds(t) PROVE NotToOneself'
    <2>1. PICK r : r = Ended
        OBVIOUS
    <2>2. r.at = "ended" /\ call' = [call EXCEPT ![t] = r] /\ UNCHANGED pipe
        BY <1>15, <2>1 DEF ThreadEnds, Ended
    <2> QED BY <1>2, <2>2
<1> QED BY <1>1, <1>4, <1>5, <1>6, <1>7, <1>8, <1>9, <1>10, <1>11, <1>12, <1>13, <1>14, <1>15
        DEF Next

-----------------------------------------------------------------------------
(* What the streams to reader d look like in a list g of pipes p.           *)
WritersIn(g, p, d) == {p[b].source : b \in {c \in ToSet(g) : p[c].dest = d /\ p[c].writer_open}}
PlacesOf(g, p, d) == {n \in DOMAIN g : p[g[n]].dest = d}
ReadersIn(g, p, d) ==
    IF PlacesOf(g, p, d) = {} THEN 0 ELSE p[g[Min(PlacesOf(g, p, d))]].readers

LEMMA View ==
    ASSUME NEW g \in Seq(Blocks), NEW p, NEW d,
           \A m, n \in DOMAIN g : g[m] = g[n] => m = n,
           \A b, c \in ToSet(g) : p[b].dest = p[c].dest => b = c
    PROVE  /\ (\A b \in ToSet(g) : p[b].dest # d) =>
                  WritersIn(g, p, d) = {} /\ ReadersIn(g, p, d) = 0
           /\ \A b \in ToSet(g) : p[b].dest = d =>
                  /\ WritersIn(g, p, d) = IF p[b].writer_open THEN {p[b].source} ELSE {}
                  /\ ReadersIn(g, p, d) = p[b].readers
<1>1. ASSUME \A b \in ToSet(g) : p[b].dest # d
      PROVE  WritersIn(g, p, d) = {} /\ ReadersIn(g, p, d) = 0
    BY <1>1 DEF WritersIn, ReadersIn, PlacesOf, ToSet
<1>2. ASSUME NEW b \in ToSet(g), p[b].dest = d
      PROVE  /\ WritersIn(g, p, d) = IF p[b].writer_open THEN {p[b].source} ELSE {}
             /\ ReadersIn(g, p, d) = p[b].readers
    <2>1. \A c \in ToSet(g) : p[c].dest = d => c = b
        BY <1>2
    <2>2. WritersIn(g, p, d) = IF p[b].writer_open THEN {p[b].source} ELSE {}
        BY <1>2, <2>1 DEF WritersIn
    <2>3. PICK k \in DOMAIN g : g[k] = b
        BY DEF ToSet
    <2>4. PlacesOf(g, p, d) = {k}
        <3>1. k \in PlacesOf(g, p, d)
            BY <1>2, <2>3 DEF PlacesOf
        <3>2. ASSUME NEW n \in PlacesOf(g, p, d) PROVE n = k
            <4>1. n \in DOMAIN g /\ g[n] = b
                BY <2>1 DEF PlacesOf, ToSet
            <4> QED BY <2>3, <4>1
        <3> QED BY <3>1, <3>2
    <2>5. k \in Nat
        <3>1. DOMAIN g = 1 .. Len(g)
            OBVIOUS
        <3> QED BY <2>3, <3>1
    <2>6. Min(PlacesOf(g, p, d)) = k
        BY <2>4, <2>5 DEF Min
    <2> QED BY <2>2, <2>3, <2>4, <2>6 DEF ReadersIn
<1> QED BY <1>1, <1>2

LEMMA SeenNow ==
    ASSUME StreamsInv, NEW d \in Threads
    PROVE  /\ (\A b \in Linked : pipe[b].dest # d) => WritersSeen[d] = {} /\ ReadersSeen[d] = 0
           /\ \A b \in Linked : pipe[b].dest = d =>
                  /\ WritersSeen[d] = IF pipe[b].writer_open THEN {pipe[b].source} ELSE {}
                  /\ ReadersSeen[d] = pipe[b].readers
<1>1. /\ g_streams \in Seq(Blocks)
      /\ \A m, n \in DOMAIN g_streams : g_streams[m] = g_streams[n] => m = n
      /\ \A b, c \in ToSet(g_streams) : pipe[b].dest = pipe[c].dest => b = c
    BY DEF StreamsInv, TypeOK, ListSound, Linked
<1>2. /\ WritersSeen[d] = WritersIn(g_streams, pipe, d)
      /\ ReadersSeen[d] = ReadersIn(g_streams, pipe, d)
    BY DEF WritersSeen, ReadersSeen, WritersIn, ReadersIn, PlacesOf, Linked, Matches,
           tstream_find_pipe
<1> QED BY <1>1, <1>2, View DEF Linked

LEMMA SeenNext ==
    ASSUME StreamsInv', NEW d \in Threads
    PROVE  /\ (\A b \in Linked' : pipe'[b].dest # d) =>
                  WritersSeen'[d] = {} /\ ReadersSeen'[d] = 0
           /\ \A b \in Linked' : pipe'[b].dest = d =>
                  /\ WritersSeen'[d] = IF pipe'[b].writer_open THEN {pipe'[b].source} ELSE {}
                  /\ ReadersSeen'[d] = pipe'[b].readers
<1>1. /\ g_streams' \in Seq(Blocks)
      /\ \A m, n \in DOMAIN g_streams' : g_streams'[m] = g_streams'[n] => m = n
      /\ \A b, c \in ToSet(g_streams') : pipe'[b].dest = pipe'[c].dest => b = c
    BY DEF StreamsInv, TypeOK, ListSound, Linked
<1>2. /\ WritersSeen'[d] = WritersIn(g_streams', pipe', d)
      /\ ReadersSeen'[d] = ReadersIn(g_streams', pipe', d)
    BY DEF WritersSeen, ReadersSeen, WritersIn, ReadersIn, PlacesOf, Linked, Matches,
           tstream_find_pipe
<1> QED BY <1>1, <1>2, View DEF Linked

(* A step that changes no linked pipe shows nothing.                        *)
LEMMA Unseen ==
    ASSUME StreamsInv, StreamsInv', Linked' = Linked, \A b \in Linked : pipe'[b] = pipe[b]
    PROVE  UNCHANGED <<WritersSeen, ReadersSeen>>
<1>1. ASSUME NEW d \in Threads
      PROVE  WritersSeen'[d] = WritersSeen[d] /\ ReadersSeen'[d] = ReadersSeen[d]
    <2>1. CASE \A b \in Linked : pipe[b].dest # d
        <3>1. \A b \in Linked' : pipe'[b].dest # d
            BY <2>1
        <3> QED BY <2>1, <3>1, SeenNow, SeenNext
    <2>2. CASE \E b \in Linked : pipe[b].dest = d
        <3>1. PICK b \in Linked : pipe[b].dest = d
            BY <2>2
        <3>2. b \in Linked' /\ pipe'[b] = pipe[b] /\ pipe'[b].dest = d
            BY <3>1
        <3>3. /\ WritersSeen[d] = IF pipe[b].writer_open THEN {pipe[b].source} ELSE {}
              /\ ReadersSeen[d] = pipe[b].readers
            BY <3>1, SeenNow
        <3>4. /\ WritersSeen'[d] = IF pipe'[b].writer_open THEN {pipe'[b].source} ELSE {}
              /\ ReadersSeen'[d] = pipe'[b].readers
            BY <3>2, SeenNext
        <3> QED BY <3>2, <3>3, <3>4
    <2> QED BY <2>1, <2>2
<1>2. /\ WritersSeen = [d \in Threads |-> WritersSeen[d]]
      /\ WritersSeen' = [d \in Threads |-> WritersSeen'[d]]
      /\ ReadersSeen = [d \in Threads |-> ReadersSeen[d]]
      /\ ReadersSeen' = [d \in Threads |-> ReadersSeen'[d]]
    BY DEF WritersSeen, ReadersSeen
<1> QED BY <1>1, <1>2

(* One that changes a pipe p shows at its reader only.                      *)
LEMMA OneSeen ==
    ASSUME StreamsInv, StreamsInv', NEW p, NEW d \in Threads,
           \A b \in Linked : b # p => b \in Linked' /\ pipe'[b] = pipe[b],
           \A b \in Linked' : b # p => b \in Linked,
           p \in Linked => pipe[p].dest = d,
           p \in Linked' => pipe'[p].dest = d,
           NEW w, NEW n, WritersSeen'[d] = w, ReadersSeen'[d] = n
    PROVE  WritersSeen' = [WritersSeen EXCEPT ![d] = w]
           /\ ReadersSeen' = [ReadersSeen EXCEPT ![d] = n]
<1>1. ASSUME NEW e \in Threads \ {d}
      PROVE  WritersSeen'[e] = WritersSeen[e] /\ ReadersSeen'[e] = ReadersSeen[e]
    <2>1. CASE \A b \in Linked : pipe[b].dest # e
        <3>1. \A b \in Linked' : pipe'[b].dest # e
            BY <2>1
        <3> QED BY <2>1, <3>1, SeenNow, SeenNext
    <2>2. CASE \E b \in Linked : pipe[b].dest = e
        <3>1. PICK b \in Linked : pipe[b].dest = e
            BY <2>2
        <3>2. b \in Linked' /\ pipe'[b] = pipe[b] /\ pipe'[b].dest = e
            BY <3>1
        <3>3. /\ WritersSeen[e] = IF pipe[b].writer_open THEN {pipe[b].source} ELSE {}
              /\ ReadersSeen[e] = pipe[b].readers
            BY <3>1, SeenNow
        <3>4. /\ WritersSeen'[e] = IF pipe'[b].writer_open THEN {pipe'[b].source} ELSE {}
              /\ ReadersSeen'[e] = pipe'[b].readers
            BY <3>2, SeenNext
        <3> QED BY <3>2, <3>3, <3>4
    <2> QED BY <2>1, <2>2
<1>2. /\ WritersSeen = [e \in Threads |-> WritersSeen[e]]
      /\ WritersSeen' = [e \in Threads |-> WritersSeen'[e]]
      /\ ReadersSeen = [e \in Threads |-> ReadersSeen[e]]
      /\ ReadersSeen' = [e \in Threads |-> ReadersSeen'[e]]
    BY DEF WritersSeen, ReadersSeen
<1> QED BY <1>1, <1>2

-----------------------------------------------------------------------------
LEMMA LinkSeen ==
    ASSUME StreamsInv, StreamsInv', NotToOneself, NEW t \in Threads, WopenLink(t)
    PROVE  [StreamsSeen!Next]_<<WritersSeen, ReadersSeen>>
<1>0. PICK p : p = call[t].pipe
    OBVIOUS
<1>1. /\ call[t].at = "link" /\ UNCHANGED pipe /\ p \in Blocks
      /\ pipe[p] \in Pipes /\ pipe[p].source = t /\ pipe[p].readers = 0
      /\ pipe[p].writer_open /\ pipe[p].dest # t
    BY <1>0, CallShape DEF WopenLink, In, StreamsInv, CallsSound, NotToOneself
<1>2. PICK d \in Threads : d = pipe[p].dest
    BY <1>1 DEF Pipes
<1>3. CASE Matches(d) = {} /\ g_streams' = <<p>> \o g_streams
    <2>1. \A b \in Linked : pipe[b].dest # d
        BY <1>3, NoMatch
    <2>2. Linked' = Linked \cup {p}
        <3>1. g_streams \in Seq(Blocks) /\ NoRepeats(g_streams) /\ p \in Blocks \ ToSet(g_streams)
            BY <1>1, <1>2, <2>1 DEF StreamsInv, TypeOK, ListSound, NoRepeats, Linked
        <3> QED BY <1>3, <3>1, LinkEffect DEF Linked
    <2>3. WritersSeen[d] = {} /\ ReadersSeen[d] = 0
        BY <2>1, SeenNow
    <2>4. WritersSeen'[d] = {t} /\ ReadersSeen'[d] = 0
        BY <1>1, <1>2, <2>2, SeenNext
    <2>5. /\ WritersSeen' = [WritersSeen EXCEPT ![d] = {t}]
          /\ ReadersSeen' = [ReadersSeen EXCEPT ![d] = 0]
        BY <1>1, <1>2, <2>1, <2>2, <2>4, OneSeen
    <2>6. ReadersSeen' = ReadersSeen
        BY <2>3, <2>5 DEF ReadersSeen
    <2>7. StreamsSeen!OpenWriter(t, d)
        BY <1>1, <1>2, <2>3, <2>5, <2>6 DEF StreamsSeen!OpenWriter, StreamsSeen!CanWrite
    <2> QED BY <2>7 DEF StreamsSeen!Next
<1>4. CASE UNCHANGED g_streams
    BY <1>1, <1>4, Unseen DEF Linked
<1> QED BY <1>0, <1>2, <1>3, <1>4 DEF WopenLink

LEMMA UnlinkSeen ==
    ASSUME StreamsInv, StreamsInv', NEW t \in Threads, WopenUnlink(t)
    PROVE  StreamsSeen!Next
<1>0. PICK p : p = call[t].pipe
    OBVIOUS
<1>1. /\ UNCHANGED pipe /\ p \in Linked /\ pipe[p].source = t /\ pipe[p].readers = 0
      /\ pipe[p].writer_open /\ tstream_unlink_pipe(p)
    BY <1>0 DEF WopenUnlink, In, StreamsInv, CallsSound
<1>2. PICK d \in Threads : d = pipe[p].dest
    BY <1>1, LinkedPipe DEF StreamsInv
<1>3. Linked' = Linked \ {p}
    <2>1. g_streams \in Seq(Blocks) /\ NoRepeats(g_streams)
        BY DEF StreamsInv, TypeOK, ListSound, NoRepeats
    <2> QED BY <1>1, <2>1, UnlinkEffect
<1>4. \A b \in Linked' : pipe'[b].dest # d
    BY <1>1, <1>2, <1>3 DEF StreamsInv, ListSound
<1>5. WritersSeen[d] = {t} /\ ReadersSeen[d] = 0
    BY <1>1, <1>2, SeenNow
<1>6. WritersSeen'[d] = {} /\ ReadersSeen'[d] = 0
    BY <1>4, SeenNext
<1>7. /\ WritersSeen' = [WritersSeen EXCEPT ![d] = {}]
      /\ ReadersSeen' = [ReadersSeen EXCEPT ![d] = 0]
    BY <1>1, <1>2, <1>3, <1>6, OneSeen
<1>8. ReadersSeen' = ReadersSeen
    BY <1>5, <1>7 DEF ReadersSeen
<1>9. StreamsSeen!CloseWriter(d)
    BY <1>5, <1>7, <1>8 DEF StreamsSeen!CloseWriter
<1> QED BY <1>9 DEF StreamsSeen!Next

LEMMA RopenSeen ==
    ASSUME StreamsInv, StreamsInv', NEW t \in Threads, tstream_ropen(t)
    PROVE  StreamsSeen!Next
<1>0. PICK p : p = tstream_find_pipe(t)
    OBVIOUS
<1>1. /\ UNCHANGED g_streams /\ Matches(t) # {} /\ pipe[p].writer_open
      /\ pipe' = [pipe EXCEPT ![p].readers = @ + 1]
    BY <1>0 DEF tstream_ropen
<1>2. p \in Linked /\ pipe[p].dest = t
    BY <1>0, <1>1, FindEffect DEF StreamsInv, TypeOK
<1>3. /\ p \in Blocks /\ pipe[p] \in Pipes /\ Linked' = Linked /\ Linked \subseteq Blocks
    BY <1>1, <1>2 DEF StreamsInv, TypeOK, ListSound, Linked
<1>4. /\ pipe'[p].dest = t /\ pipe'[p].source = pipe[p].source /\ pipe'[p].writer_open
      /\ pipe'[p].readers = pipe[p].readers + 1
      /\ \A b \in Linked : b # p => pipe'[b] = pipe[b]
    BY <1>1, <1>2, <1>3 DEF StreamsInv, TypeOK, Pipes
<1>5. WritersSeen[t] = {pipe[p].source} /\ ReadersSeen[t] = pipe[p].readers
    BY <1>1, <1>2, SeenNow
<1>6. WritersSeen'[t] = {pipe[p].source} /\ ReadersSeen'[t] = pipe[p].readers + 1
    <2>1. p \in Linked' /\ pipe'[p].dest = t
        BY <1>2, <1>3, <1>4
    <2>2. /\ WritersSeen'[t] = IF pipe'[p].writer_open THEN {pipe'[p].source} ELSE {}
          /\ ReadersSeen'[t] = pipe'[p].readers
        BY <2>1, SeenNext
    <2> QED BY <1>4, <2>2
<1>7. /\ WritersSeen' = [WritersSeen EXCEPT ![t] = {pipe[p].source}]
      /\ ReadersSeen' = [ReadersSeen EXCEPT ![t] = pipe[p].readers + 1]
    BY <1>2, <1>3, <1>4, <1>6, OneSeen
<1>8. WritersSeen' = WritersSeen
    BY <1>5, <1>7 DEF WritersSeen
<1>9. StreamsSeen!OpenReader(t)
    BY <1>5, <1>7, <1>8 DEF StreamsSeen!OpenReader, StreamsSeen!CanRead
<1> QED BY <1>9 DEF StreamsSeen!Next

LEMMA UndoSeen ==
    ASSUME StreamsInv, StreamsInv', NEW t \in Threads, RopenUndo(t)
    PROVE  StreamsSeen!Next
<1>0. PICK p : p = call[t].pipe
    OBVIOUS
<1>1. /\ UNCHANGED g_streams /\ p \in Linked /\ pipe[p].dest = t /\ pipe[p].writer_open
      /\ pipe' = [pipe EXCEPT ![p].readers = IF @ > 0 THEN @ - 1 ELSE @]
      /\ call[t].at = "undo"
    BY <1>0 DEF RopenUndo, In, StreamsInv, CallsSound
<1>2. pipe[p].readers > 0 /\ pipe[p].readers \in Nat
    <2>1. Opens(t, p)
        BY <1>0, <1>1 DEF Opens
    <2> QED BY <1>1, <2>1, ReadsFinite DEF StreamsInv, ReadersCounted, ReadersOf
<1>3. /\ p \in Blocks /\ pipe[p] \in Pipes /\ Linked' = Linked /\ Linked \subseteq Blocks
    BY <1>1 DEF StreamsInv, TypeOK, ListSound, Linked
<1>4. /\ pipe'[p].dest = t /\ pipe'[p].source = pipe[p].source /\ pipe'[p].writer_open
      /\ pipe'[p].readers = pipe[p].readers - 1
      /\ \A b \in Linked : b # p => pipe'[b] = pipe[b]
    BY <1>1, <1>2, <1>3 DEF StreamsInv, TypeOK, Pipes
<1>5. WritersSeen[t] = {pipe[p].source} /\ ReadersSeen[t] = pipe[p].readers
    BY <1>1, SeenNow
<1>6. WritersSeen'[t] = {pipe[p].source} /\ ReadersSeen'[t] = pipe[p].readers - 1
    <2>1. p \in Linked' /\ pipe'[p].dest = t
        BY <1>1, <1>3, <1>4
    <2>2. /\ WritersSeen'[t] = IF pipe'[p].writer_open THEN {pipe'[p].source} ELSE {}
          /\ ReadersSeen'[t] = pipe'[p].readers
        BY <2>1, SeenNext
    <2> QED BY <1>4, <2>2
<1>7. /\ WritersSeen' = [WritersSeen EXCEPT ![t] = {pipe[p].source}]
      /\ ReadersSeen' = [ReadersSeen EXCEPT ![t] = pipe[p].readers - 1]
    BY <1>1, <1>3, <1>4, <1>6, OneSeen
<1>8. WritersSeen' = WritersSeen
    BY <1>5, <1>7 DEF WritersSeen
<1>9. StreamsSeen!CloseReader(t)
    BY <1>2, <1>5, <1>7, <1>8 DEF StreamsSeen!CloseReader
<1> QED BY <1>9 DEF StreamsSeen!Next

LEMMA CloseSeen ==
    ASSUME StreamsInv, StreamsInv', NEW t \in Threads, NEW h \in handles[t],
           tstream_close(t, h)
    PROVE  StreamsSeen!Next
<1>0. PICK p, s, d : p = h.pipe /\ s = pipe[p].source /\ d = pipe[p].dest
    OBVIOUS
<1>1. /\ p \in Linked /\ s \in Threads /\ d \in Threads
      /\ t = IF h.writer THEN s ELSE d
      /\ pipe'[p] \in Pipes /\ pipe'[p].source = s /\ pipe'[p].dest = d
      /\ \A b \in Blocks \ {p} : pipe'[b] = pipe[b]
      /\ LastOut(h) <=> ~pipe'[p].writer_open /\ pipe'[p].readers = 0
    BY <1>0, CloseCounts
<1>2. Linked' = IF LastOut(h) THEN Linked \ {p} ELSE Linked
    <2>1. g_streams \in Seq(Blocks) /\ NoRepeats(g_streams)
        BY DEF StreamsInv, TypeOK, ListSound, NoRepeats
    <2>2. CASE LastOut(h)
        <3>1. tstream_unlink_pipe(p)
            BY <1>0, <2>2 DEF tstream_close
        <3> QED BY <1>1, <2>1, <2>2, <3>1, UnlinkEffect
    <2>3. CASE ~LastOut(h)
        BY <2>3 DEF tstream_close, Linked
    <2> QED BY <2>2, <2>3
<1>3. \A b \in Linked : b # p => pipe'[b] = pipe[b] /\ pipe[b].dest # d
    BY <1>0, <1>1 DEF StreamsInv, TypeOK, ListSound
<1>4. /\ pipe'[p] = Closed(h) /\ pipe[p] \in Pipes
    BY <1>0, <1>1 DEF tstream_close, StreamsInv, TypeOK, ListSound
<1>5. /\ WritersSeen[d] = IF pipe[p].writer_open THEN {s} ELSE {}
      /\ ReadersSeen[d] = pipe[p].readers
    BY <1>0, <1>1, SeenNow
<1>6. /\ WritersSeen'[d] = IF pipe'[p].writer_open THEN {s} ELSE {}
      /\ ReadersSeen'[d] = pipe'[p].readers
    <2>1. CASE LastOut(h)
        <3>1. \A b \in Linked' : pipe'[b].dest # d
            BY <1>2, <1>3, <2>1
        <3> QED BY <1>1, <2>1, <3>1, SeenNext
    <2>2. CASE ~LastOut(h)
        BY <1>1, <1>2, <2>2, SeenNext
    <2> QED BY <2>1, <2>2
<1>7. /\ WritersSeen' = [WritersSeen EXCEPT ![d] = IF pipe'[p].writer_open THEN {s} ELSE {}]
      /\ ReadersSeen' = [ReadersSeen EXCEPT ![d] = pipe'[p].readers]
    <2>1. PICK w, n : w = WritersSeen'[d] /\ n = ReadersSeen'[d]
        OBVIOUS
    <2>2. /\ \A b \in Linked : b # p => b \in Linked' /\ pipe'[b] = pipe[b]
          /\ \A b \in Linked' : b # p => b \in Linked
        BY <1>2, <1>3
    <2>3. WritersSeen' = [WritersSeen EXCEPT ![d] = w]
          /\ ReadersSeen' = [ReadersSeen EXCEPT ![d] = n]
        BY <1>0, <1>1, <2>1, <2>2, OneSeen
    <2> QED BY <1>6, <2>1, <2>3
<1>8. CASE h.writer
    <2>1. h \in Writes(s, p) /\ pipe[p].writer_open
        BY <1>0, <1>1, <1>8 DEF Writes, StreamsInv, WriterCounted, WriterOf
    <2>2. pipe'[p].readers = pipe[p].readers /\ ~pipe'[p].writer_open
        BY <1>0, <1>4, <1>8 DEF Closed, Pipes
    <2>3. ReadersSeen' = ReadersSeen
        BY <1>5, <1>7, <2>2 DEF ReadersSeen
    <2>4. StreamsSeen!CloseWriter(d)
        BY <1>1, <1>5, <1>7, <2>1, <2>2, <2>3 DEF StreamsSeen!CloseWriter
    <2> QED BY <1>1, <2>4 DEF StreamsSeen!Next
<1>9. CASE ~h.writer
    <2>1. h \in Reads(d, p)
        BY <1>0, <1>1, <1>9 DEF Reads
    <2>2. pipe[p].readers > 0 /\ pipe[p].readers \in Nat
        <3>1. /\ Cardinality(Reads(d, p)) \in Nat /\ Cardinality(Reads(d, p)) # 0
            BY <1>1, <2>1, ReadsFinite
        <3> QED BY <1>0, <1>1, <3>1 DEF StreamsInv, ReadersCounted, ReadersOf
    <2>3. /\ pipe'[p].readers = pipe[p].readers - 1
          /\ pipe'[p].writer_open = pipe[p].writer_open
        BY <1>0, <1>4, <1>9, <2>2 DEF Closed, Pipes
    <2>4. WritersSeen' = WritersSeen
        BY <1>5, <1>7, <2>3 DEF WritersSeen
    <2>5. StreamsSeen!CloseReader(d)
        BY <1>1, <1>5, <1>7, <2>2, <2>3, <2>4 DEF StreamsSeen!CloseReader
    <2> QED BY <1>1, <2>5 DEF StreamsSeen!Next
<1> QED BY <1>8, <1>9

LEMMA StepSeen ==
    ASSUME StreamsInv, StreamsInv', NotToOneself, [Next]_vars
    PROVE  [StreamsSeen!Next]_<<WritersSeen, ReadersSeen>>
<1>1. ASSUME UNCHANGED <<g_streams, pipe>> PROVE UNCHANGED <<WritersSeen, ReadersSeen>>
    BY <1>1, Unseen DEF Linked
<1>2. CASE UNCHANGED vars
    BY <1>1, <1>2 DEF vars
<1>3. ASSUME NEW t \in Threads, NEW dest \in Threads, tstream_wopen(t, dest)
      PROVE  UNCHANGED <<WritersSeen, ReadersSeen>>
    BY <1>1, <1>3 DEF tstream_wopen
<1>4. ASSUME NEW t \in Threads, WopenAlloc(t)
      PROVE  UNCHANGED <<WritersSeen, ReadersSeen>>
    <2>1. Linked' = Linked /\ Linked \subseteq used
        BY <1>4 DEF WopenAlloc, Linked, StreamsInv, ListSound
    <2>2. \A b \in used : pipe'[b] = pipe[b]
        BY <1>4 DEF WopenAlloc, Consume, StreamsInv, TypeOK
    <2> QED BY <2>1, <2>2, Unseen
<1>5. ASSUME NEW t \in Threads, WopenLink(t)
      PROVE  [StreamsSeen!Next]_<<WritersSeen, ReadersSeen>>
    BY <1>5, LinkSeen
<1>6. ASSUME NEW t \in Threads, WopenHandle(t) \/ RopenHandle(t)
      PROVE  UNCHANGED <<WritersSeen, ReadersSeen>>
    BY <1>1, <1>6 DEF WopenHandle, RopenHandle
<1>7. ASSUME NEW t \in Threads, WopenUnlink(t) PROVE StreamsSeen!Next
    BY <1>7, UnlinkSeen
<1>8. ASSUME NEW t \in Threads, FreePipe(t)
      PROVE  UNCHANGED <<WritersSeen, ReadersSeen>>
    <2>1. PICK p : p = call[t].pipe
        OBVIOUS
    <2>2. p \notin Linked
        BY <1>8, <2>1 DEF FreePipe, In, Owned, StreamsInv, OwnedApart
    <2>3. Linked' = Linked /\ \A b \in Linked : pipe'[b] = pipe[b]
        BY <1>8, <2>1, <2>2 DEF FreePipe, Linked, StreamsInv, TypeOK, ListSound
    <2> QED BY <2>3, Unseen
<1>9. ASSUME NEW t \in Threads, tstream_ropen(t) PROVE StreamsSeen!Next
    BY <1>9, RopenSeen
<1>10. ASSUME NEW t \in Threads, RopenUndo(t) PROVE StreamsSeen!Next
    BY <1>10, UndoSeen
<1>11. ASSUME NEW t \in Threads, NEW h \in handles[t], tstream_close(t, h)
       PROVE  StreamsSeen!Next
    BY <1>11, CloseSeen
<1>12. ASSUME NEW t \in Threads, DestroyHandle(t) \/ ThreadEnds(t)
       PROVE  UNCHANGED <<WritersSeen, ReadersSeen>>
    BY <1>1, <1>12 DEF DestroyHandle, ThreadEnds
<1> QED BY <1>2, <1>3, <1>4, <1>5, <1>6, <1>7, <1>8, <1>9, <1>10, <1>11, <1>12 DEF Next

LEMMA InitSeen == Init => StreamsSeen!Init /\ NotToOneself
<1> SUFFICES ASSUME Init PROVE StreamsSeen!Init /\ NotToOneself
    OBVIOUS
<1>1. g_streams = <<>> /\ Linked = {} /\ \A t \in Threads : call[t].at = "idle"
    BY DEF Init, Linked, ToSet, Idle
<1>2. \A d \in Threads : Matches(d) = {}
    BY <1>1 DEF Matches
<1>3. WritersSeen = [d \in Threads |-> {}] /\ ReadersSeen = [d \in Threads |-> 0]
    BY <1>1, <1>2 DEF WritersSeen, ReadersSeen
<1> QED BY <1>1, <1>3 DEF StreamsSeen!Init, NotToOneself

(* No thread is ever a second writer of a stream, opens one nobody has      *)
(* opened for writing or inherits one left over, for any number of threads, *)
(* blocks and handles.                                                      *)
THEOREM StreamsImplemented ==
    ASSUME ~LateFailures
    PROVE  Spec => ImplementsStreams
<1>1. Init => StreamsSeen!Init /\ NotToOneself
    BY InitSeen
<1>2. StreamsInv /\ NotToOneself /\ [Next]_vars => NotToOneself'
    BY SelfStep
<1>3. StreamsInv /\ StreamsInv' /\ NotToOneself /\ [Next]_vars
        => [StreamsSeen!Next]_<<WritersSeen, ReadersSeen>>
    BY StepSeen
<1>4. Spec => StreamsSeen!Spec
    BY <1>1, <1>2, <1>3, StreamsInvariant, PTL DEF Spec, StreamsSeen!Spec
<1> QED BY <1>4 DEF ImplementsStreams
=============================================================================
