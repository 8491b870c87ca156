--------------------------- MODULE WebRunsProofs ---------------------------
(***************************************************************************)
(* Proofs about the runs started from a browser: what a client is sent, and *)
(* the configuration a run gets, for any number of requests and workers.   *)
(***************************************************************************)
EXTENDS WebRuns, SequenceTheorems, FiniteSetTheorems, TLAPS

(***************************************************************************)
(* Sequences cut in two                                                    *)
(***************************************************************************)
\* The first part is a prefix of the whole.
LEMMA PrefixOfConcat ==
  ASSUME NEW S, NEW p \in Seq(S), NEW q \in Seq(S)
  PROVE  IsPrefix(p, p \o q)
<1>1. Len(p \o q) = Len(p) + Len(q) /\ Len(p) \in Nat /\ Len(q) \in Nat /\ p \o q \in Seq(S)
  BY ConcatProperties
<1>2. SubSeq(p \o q, 1, Len(p)) = p /\ SubSeq(p, 1, Len(p)) = p
  BY SubSeqOfConcat1, SubSeqFull
<1> QED BY <1>1, <1>2 DEF IsPrefix

\* Taking the head of the second part to the end of the first keeps the whole.
LEMMA HeadMoves ==
  ASSUME NEW S, NEW p \in Seq(S), NEW q \in Seq(S), q # <<>>
  PROVE  /\ Append(p, Head(q)) \o Tail(q) = p \o q
         /\ Tail(q) \in Seq(S) /\ Append(p, Head(q)) \in Seq(S)
<1>1. Head(q) \in S /\ Tail(q) \in Seq(S) /\ q = <<Head(q)>> \o Tail(q)
  BY HeadTailProperties, ConcatProperties
<1>2. Append(p, Head(q)) = p \o <<Head(q)>>
  BY <1>1, AppendIsConcat
<1>3. (p \o <<Head(q)>>) \o Tail(q) = p \o (<<Head(q)>> \o Tail(q))
  BY <1>1, ConcatAssociative
<1> QED BY <1>1, <1>2, <1>3

(***************************************************************************)
(* Streams                                                                 *)
(***************************************************************************)
LEMMA Kinds ==
  ASSUME NEW s \in Sessions
  PROVE  PrinterOf(s) \in Printers /\ PrinterOf(s) # Unset /\ Unset \notin Printers
BY DEF PrinterOf, Printers, Unset

LEMMA Ranks == \A v \in Levels : Rank[v] \in Nat
BY DEF Levels, Rank

\* What is registered with the printer of a run whose request still sends.
LEMMA StreamHasQueue ==
  ASSUME StreamInv, NEW s \in Sessions, Streaming(s)
  PROVE  /\ PrinterOf(s) \in DOMAIN queues /\ s \in DOMAIN queues[PrinterOf(s)]
         /\ queues[PrinterOf(s)][s] \in Seq(LogRecords)
BY Kinds DEF StreamInv, TypeOK, QueuesOfStreams

\* The states of a request before its run starts, and the error that ends it there.
Early == {"new", "opening", "writing", "merging", "logging", "failed"}

\* The steps of a request before its run starts leave every stream alone.
LEMMA EarlyStep ==
  ASSUME StreamInv, NEW s \in Sessions, NEW v \in Early,
         at[s] \in Early, at' = [at EXCEPT ![s] = v],
         DOMAIN cfg' = Sessions, \A t \in Sessions \ {s} : cfg'[t] = cfg[t],
         UNCHANGED <<ask, root, queues, run, wrote, got>>
  PROVE  StreamInv'
<1>1. TypeOK'
  BY DEF StreamInv, TypeOK, Early
<1>2. \A t \in Sessions : Streaming(t)' <=> Streaming(t)
  BY DEF StreamInv, TypeOK, Early, Streaming
<1>3. \A t \in Sessions : (at'[t] = "answered") <=> (at[t] = "answered")
  BY DEF StreamInv, TypeOK, Early
<1>4. QueuesOfStreams'
  <2>1. \A p \in Printers : {t \in Sessions : PrinterOf(t) = p /\ Streaming(t)'}
                                = {t \in Sessions : PrinterOf(t) = p /\ Streaming(t)}
    BY <1>2
  <2> QED BY <2>1 DEF StreamInv, QueuesOfStreams, PrinterOf
<1>5. RunsStream'
  <2>1. run[s] = "new"
    BY DEF StreamInv, RunsStream, Early, Streaming
  <2> QED BY <2>1, <1>2, <1>3 DEF StreamInv, RunsStream
<1>6. Delivery'
  BY <1>2 DEF StreamInv, Delivery, PrinterOf
<1>7. ClientSeesOwnRun'
  BY DEF StreamInv, ClientSeesOwnRun, IsPrefix
<1> QED BY <1>1, <1>4, <1>5, <1>6, <1>7 DEF StreamInv

LEMMA MergeStep ==
  ASSUME StreamInv, NEW s \in Sessions, NEW file, at[s] \in Early, MergeInto(s, file),
         UNCHANGED <<ask, root, queues, run, wrote, got>>
  PROVE  StreamInv'
<1>1. CASE MergeFails(file)
  BY <1>1, EarlyStep DEF MergeInto, Early, StreamInv, TypeOK
<1>2. CASE ~ MergeFails(file)
  <2>1. at' = [at EXCEPT ![s] = "logging"] /\ cfg' = [cfg EXCEPT ![s] = Merge(defaults, file)]
    BY <1>2 DEF MergeInto
  <2>2. DOMAIN cfg' = Sessions /\ \A t \in Sessions \ {s} : cfg'[t] = cfg[t]
    BY <2>1 DEF StreamInv, TypeOK
  <2> QED BY <2>1, <2>2, EarlyStep DEF Early
<1> QED BY <1>1, <1>2

LEMMA BeforeRun ==
  ASSUME StreamInv, NEW s \in Sessions,
         Receive(s) \/ OpenFile(s) \/ WriteFile(s) \/ MergeFile(s) \/ OpenPage(s)
  PROVE  StreamInv'
<1>1. CASE Receive(s)
  <2>1. PICK v \in Early : at' = [at EXCEPT ![s] = v]
    BY <1>1 DEF Receive, Early
  <2> QED BY <1>1, <2>1, EarlyStep DEF Receive, Early, StreamInv, TypeOK
<1>2. CASE OpenFile(s)
  BY <1>2, EarlyStep DEF OpenFile, Early, StreamInv, TypeOK
<1>3. CASE WriteFile(s)
  BY <1>3, EarlyStep DEF WriteFile, Early, StreamInv, TypeOK
<1>4. CASE MergeFile(s)
  BY <1>4, MergeStep DEF MergeFile, Early
<1>5. CASE OpenPage(s)
  BY <1>5, MergeStep DEF OpenPage, Early
<1> QED BY <1>1, <1>2, <1>3, <1>4, <1>5

\* The queues and the printer after the run of s is registered.
LEMMA StartKeeps ==
  ASSUME StreamInv, WebAssumption, NEW s \in Sessions, StartRun(s)
  PROVE  StreamInv'
<1>1. CASE cfg[s].VERBOSITY \notin Levels
  BY <1>1, EarlyStep DEF StartRun, Early, StreamInv, TypeOK
<1>2. CASE cfg[s].VERBOSITY \in Levels
  <2> DEFINE P == PrinterOf(s)
             lv == Rank[cfg[s].VERBOSITY]
  <2>1. /\ at[s] = "logging" /\ at' = [at EXCEPT ![s] = "polling"]
        /\ root' = LogInit(P, lv) /\ queues' = Registered(s)
        /\ run' = [run EXCEPT ![s] = IF s \in Sockets THEN "started" ELSE "running"]
        /\ UNCHANGED <<ask, cfg, tmp, defaults, wrote, got>>
    BY <1>2 DEF StartRun
  <2>2. run[s] = "new" /\ wrote[s] = <<>> /\ got[s] = <<>> /\ ~ Streaming(s)
    BY <2>1 DEF StreamInv, RunsStream, Streaming
  <2>3. \A t \in Sessions : Streaming(t)' <=> (t = s \/ Streaming(t))
    BY <2>1 DEF StreamInv, TypeOK, Streaming
  <2>4. \A t \in Sessions : (at'[t] = "answered") <=> (at[t] = "answered")
    BY <2>1 DEF StreamInv, TypeOK
  <2>5. P \in Printers /\ P # Unset /\ Unset \notin Printers /\ lv \in Nat
    BY <1>2, Kinds, Ranks
  <2>6. /\ root' \in [printer : Printers, level : Nat, filters : SUBSET Nat]
        /\ root.printer # Unset => root'.printer = root.printer
        /\ root.printer = Unset => root'.printer = P
    BY <2>1, <2>5 DEF LogInit, StreamInv, TypeOK
  <2>7. /\ DOMAIN queues' = Printers
        /\ \A p \in Printers \ {P} : queues'[p] = queues[p]
        /\ DOMAIN queues'[P] = DOMAIN queues[P] \cup {s}
        /\ queues'[P][s] = <<>>
        /\ \A n \in DOMAIN queues[P] \ {s} : queues'[P][n] = queues[P][n]
    BY <2>1, <2>5 DEF Registered, ThreadName, StreamInv, TypeOK
  <2>8. <<>> \in Seq(LogRecords)
    OBVIOUS
  <2>9. TypeOK'
    <3>1. \A p \in Printers : \A n \in DOMAIN queues'[p] : queues'[p][n] \in Seq(LogRecords)
      BY <2>7, <2>8 DEF StreamInv, TypeOK
    <3> QED BY <2>1, <2>6, <2>7, <3>1 DEF StreamInv, TypeOK
  <2>10. QueuesOfStreams'
    <3>1. ASSUME NEW p \in Printers
          PROVE  DOMAIN queues'[p] = {t \in Sessions : PrinterOf(t) = p /\ Streaming(t)'}
      BY <2>3, <2>5, <2>7 DEF StreamInv, QueuesOfStreams
    <3> QED BY <3>1 DEF QueuesOfStreams, PrinterOf
  <2>11. RunsStream'
    <3>1. root'.printer # Unset
      BY <2>5, <2>6
    <3>2. run'[s] # "new" /\ \A t \in Sessions \ {s} : run'[t] = run[t]
      BY <2>1 DEF StreamInv, TypeOK
    <3>3. at'[s] # "answered"
      BY <2>1, <2>4
    <3> QED BY <1>2, <2>1, <2>3, <2>4, <3>1, <3>2, <3>3 DEF StreamInv, RunsStream
  <2>12. Delivery'
    <3>1. ASSUME NEW t \in Sessions, Streaming(t)'
          PROVE  IF root'.printer = PrinterOf(t)
                 THEN wrote[t] = got[t] \o queues'[PrinterOf(t)][t]
                 ELSE queues'[PrinterOf(t)][t] = <<>> /\ got[t] = <<>>
      <4>1. CASE t = s
        <5>1. wrote[t] = got[t] \o <<>>
          BY <2>2, <4>1
        <5> QED BY <2>2, <2>7, <4>1, <5>1
      <4>2. CASE t # s
        <5>1. Streaming(t) /\ PrinterOf(t) \in Printers
          BY <2>3, <3>1, <4>2, Kinds
        <5>2. root'.printer = root.printer
          BY <2>6, <5>1 DEF StreamInv, RunsStream
        <5>3. queues'[PrinterOf(t)][t] = queues[PrinterOf(t)][t]
          BY <2>7, <4>2, <5>1, StreamHasQueue
        <5> QED BY <5>1, <5>2, <5>3 DEF StreamInv, Delivery
      <4> QED BY <4>1, <4>2
    <3> QED BY <2>1, <3>1 DEF Delivery, PrinterOf
  <2>13. ClientSeesOwnRun'
    BY <2>1 DEF StreamInv, ClientSeesOwnRun, IsPrefix
  <2> QED BY <2>9, <2>10, <2>11, <2>12, <2>13 DEF StreamInv
<1> QED BY <1>1, <1>2

\* The steps of a thread that log nothing.
LEMMA ThreadKeeps ==
  ASSUME StreamInv, NEW s \in Sessions, RunStarts(s) \/ RunEnds(s)
  PROVE  StreamInv'
<1>1. /\ run[s] \in {"started", "running"}
      /\ run' \in [Sessions -> {"new", "started", "running", "dead"}]
      /\ run'[s] # "new" /\ \A t \in Sessions \ {s} : run'[t] = run[t]
      /\ UNCHANGED <<ask, at, cfg, queues, wrote, got>>
  BY DEF RunStarts, RunEnds, StreamInv, TypeOK
<1>2. /\ root.printer # Unset /\ cfg[s].VERBOSITY \in Levels
      /\ Streaming(s) /\ at[s] # "answered"
  BY <1>1 DEF StreamInv, RunsStream, Streaming
<1>3. /\ root'.printer = root.printer
      /\ root' \in [printer : Printers \cup {Unset}, level : Nat, filters : SUBSET Nat]
  <2> DEFINE lv == Rank[cfg[s].VERBOSITY]
  <2>1. lv \in Nat /\ root \in [printer : Printers \cup {Unset}, level : Nat, filters : SUBSET Nat]
    BY <1>2, Ranks DEF StreamInv, TypeOK
  <2>2. root' = [root EXCEPT !.filters = @ \cup {lv}] \/ root' = root
    BY <1>2 DEF RunStarts, RunEnds, LogInit
  <2> HIDE DEF lv
  <2> QED BY <2>1, <2>2
<1>4. TypeOK'
  BY <1>1, <1>3 DEF StreamInv, TypeOK
<1>5. QueuesOfStreams'
  BY <1>1 DEF StreamInv, QueuesOfStreams, PrinterOf, Streaming
<1>6. RunsStream'
  BY <1>1, <1>2, <1>3 DEF StreamInv, RunsStream, Streaming
<1>7. Delivery'
  BY <1>1, <1>3 DEF StreamInv, Delivery, PrinterOf, Streaming
<1>8. ClientSeesOwnRun'
  BY <1>1 DEF StreamInv, ClientSeesOwnRun, IsPrefix
<1> QED BY <1>4, <1>5, <1>6, <1>7, <1>8 DEF StreamInv

\* A queue is found by the printer of the root logger exactly when that is the
\* printer the run is registered with.
LEMMA FoundByOwnPrinter ==
  ASSUME StreamInv, WebAssumption, NEW s \in Sessions, Streaming(s)
  PROVE  (root.printer \in DOMAIN queues /\ s \in DOMAIN queues[root.printer])
            <=> root.printer = PrinterOf(s)
BY StreamHasQueue DEF StreamInv, QueuesOfStreams, TypeOK

\* A record of a run is appended to what its client has yet to be sent.
LEMMA LogKeeps ==
  ASSUME StreamInv, WebAssumption, NEW s \in Sessions, NEW level \in Severities, Log(s, level)
  PROVE  StreamInv'
<1> DEFINE P == PrinterOf(s)
           x == [by |-> s, level |-> level]
<1>1. /\ run[s] = "running" /\ queues' = Written(s, x)
      /\ wrote' = [wrote EXCEPT ![s] = Append(@, x)]
      /\ UNCHANGED <<ask, at, cfg, root, run, got>>
  BY DEF Log
<1>2. Streaming(s) /\ x \in LogRecords
  BY <1>1 DEF StreamInv, RunsStream, LogRecords
<1>3. P \in Printers /\ s \in DOMAIN queues[P] /\ queues[P][s] \in Seq(LogRecords)
  BY <1>2, StreamHasQueue DEF StreamInv, TypeOK
<1>4. wrote[s] \in Seq(LogRecords) /\ got[s] \in Seq(LogRecords)
  BY DEF StreamInv, TypeOK
<1>5. Append(wrote[s], x) \in Seq(LogRecords) /\ Append(queues[P][s], x) \in Seq(LogRecords)
  BY <1>2, <1>3, <1>4
<1>6. wrote'[s] = Append(wrote[s], x) /\ \A t \in Sessions \ {s} : wrote'[t] = wrote[t]
  BY <1>1 DEF StreamInv, TypeOK
<1>7. /\ DOMAIN queues' = Printers
      /\ \A p \in Printers : DOMAIN queues'[p] = DOMAIN queues[p]
      /\ \A p \in Printers : \A n \in DOMAIN queues[p] :
            queues'[p][n] = IF p = P /\ n = s /\ root.printer = P
                            THEN Append(queues[P][s], x) ELSE queues[p][n]
  <2>1. CASE root.printer = P
    <3>1. queues' = [queues EXCEPT ![P][s] = Append(@, x)]
      BY <1>1, <1>2, <2>1, FoundByOwnPrinter DEF Written, ThreadName
    <3> QED BY <1>3, <2>1, <3>1 DEF StreamInv, TypeOK
  <2>2. CASE root.printer # P
    <3>1. queues' = queues
      BY <1>1, <1>2, <2>2, FoundByOwnPrinter DEF Written, ThreadName
    <3> QED BY <2>2, <3>1 DEF StreamInv, TypeOK
  <2> QED BY <2>1, <2>2
<1>8. TypeOK'
  <2>1. wrote' \in [Sessions -> Seq(LogRecords)]
    BY <1>1, <1>5 DEF StreamInv, TypeOK
  <2>2. \A p \in Printers : \A n \in DOMAIN queues'[p] : queues'[p][n] \in Seq(LogRecords)
    BY <1>5, <1>7 DEF StreamInv, TypeOK
  <2> QED BY <1>1, <1>7, <2>1, <2>2 DEF StreamInv, TypeOK
<1>9. QueuesOfStreams'
  BY <1>1, <1>7 DEF StreamInv, QueuesOfStreams, PrinterOf, Streaming
<1>10. RunsStream'
  <2>1. at[s] \in {"polling", "taking"}
    BY <1>2 DEF Streaming
  <2> QED BY <1>1, <1>6, <2>1 DEF StreamInv, RunsStream, Streaming
<1>11. Delivery'
  <2>1. ASSUME NEW t \in Sessions, Streaming(t)
        PROVE  IF root.printer = PrinterOf(t)
               THEN wrote'[t] = got[t] \o queues'[PrinterOf(t)][t]
               ELSE queues'[PrinterOf(t)][t] = <<>> /\ got[t] = <<>>
    <3>1. PrinterOf(t) \in Printers /\ t \in DOMAIN queues[PrinterOf(t)]
      BY <2>1, StreamHasQueue DEF StreamInv, TypeOK
    <3>2. IF root.printer = PrinterOf(t)
          THEN wrote[t] = got[t] \o queues[PrinterOf(t)][t]
          ELSE queues[PrinterOf(t)][t] = <<>> /\ got[t] = <<>>
      BY <2>1 DEF StreamInv, Delivery
    <3>3. CASE t # s
      BY <1>6, <1>7, <3>1, <3>2, <3>3
    <3>4. CASE t = s /\ root.printer = P
      <4>1. wrote'[s] = Append(got[s] \o queues[P][s], x)
        BY <1>6, <3>2, <3>4
      <4>2. @ = got[s] \o Append(queues[P][s], x)
        <5> HIDE DEF P, x
        <5> DEFINE g == got[s]  q == queues[P][s]
        <5>1. g \in Seq(LogRecords) /\ q \in Seq(LogRecords) /\ x \in LogRecords
          BY <1>2, <1>3, <1>4
        <5> HIDE DEF g, q
        <5>2. Append(g \o q, x) = g \o Append(q, x)
          <6>1. g \o q \in Seq(LogRecords) /\ <<x>> \in Seq(LogRecords)
            BY <5>1, ConcatProperties
          <6>2. Append(g \o q, x) = (g \o q) \o <<x>> /\ Append(q, x) = q \o <<x>>
            BY <5>1, <6>1, AppendIsConcat
          <6> QED BY <5>1, <6>1, <6>2, ConcatAssociative
        <5> QED BY <5>2 DEF g, q
      <4> QED BY <1>7, <3>1, <3>4, <4>1, <4>2
    <3>5. CASE t = s /\ root.printer # P
      BY <1>7, <3>1, <3>2, <3>5
    <3> QED BY <3>3, <3>4, <3>5
  <2> QED BY <1>1, <2>1 DEF Delivery, PrinterOf, Streaming
<1>12. ClientSeesOwnRun'
  <2>1. IsPrefix(got[s], wrote'[s])
    <3>1. /\ wrote'[s] \in Seq(LogRecords) /\ queues'[P][s] \in Seq(LogRecords)
          /\ got[s] \in Seq(LogRecords)
      BY <1>3, <1>4, <1>5, <1>6, <1>7
    <3>2. wrote'[s] = got[s] \o (queues'[P][s]) \/ got[s] = <<>>
      BY <1>1, <1>2, <1>11 DEF Delivery, PrinterOf, Streaming
    <3>3. wrote'[s] = <<>> \o wrote'[s]
      BY <3>1, ConcatEmptySeq
    <3> HIDE DEF P
    <3>4. CASE wrote'[s] = got[s] \o (queues'[P][s])
      <4>1. IsPrefix(got[s], got[s] \o (queues'[P][s]))
        BY <3>1, PrefixOfConcat
      <4> QED BY <3>4, <4>1
    <3>5. CASE got[s] = <<>>
      <4>1. IsPrefix(got[s], got[s] \o wrote'[s])
        BY <3>1, PrefixOfConcat
      <4> QED BY <3>3, <3>5, <4>1
    <3> QED BY <3>2, <3>4, <3>5
  <2>2. \A t \in Sessions \ {s} : IsPrefix(got'[t], wrote'[t])
    BY <1>1, <1>6 DEF StreamInv, ClientSeesOwnRun, IsPrefix
  <2> QED BY <1>1, <2>1, <2>2 DEF ClientSeesOwnRun
<1> QED BY <1>8, <1>9, <1>10, <1>11, <1>12 DEF StreamInv

\* A turn of the loop: it looks whether the thread is alive, or ends the stream.
LEMMA PollKeeps ==
  ASSUME StreamInv, NEW s \in Sessions, Poll(s)
  PROVE  StreamInv'
<1> DEFINE P == PrinterOf(s)
<1>1. /\ at[s] = "polling" /\ Streaming(s)
      /\ UNCHANGED <<ask, cfg, tmp, defaults, root, run, wrote, got>>
  BY DEF Poll, Streaming
<1>2. P \in Printers
  BY Kinds
<1>3. CASE run[s] = "dead"
  <2>1. at' = [at EXCEPT ![s] = "answered"] /\ queues' = Cleaned(s)
    BY <1>3 DEF Poll
  <2>2. /\ \A t \in Sessions : Streaming(t)' <=> (t # s /\ Streaming(t))
        /\ \A t \in Sessions : (at'[t] = "answered") <=> (t = s \/ at[t] = "answered")
    BY <2>1 DEF StreamInv, TypeOK, Streaming
  <2>3. /\ DOMAIN queues' = Printers
        /\ \A p \in Printers \ {P} : queues'[p] = queues[p]
        /\ DOMAIN queues'[P] = DOMAIN queues[P] \ {s}
        /\ \A n \in DOMAIN queues[P] \ {s} : queues'[P][n] = queues[P][n]
    BY <1>2, <2>1 DEF Cleaned, ThreadName, StreamInv, TypeOK
  <2>4. TypeOK'
    BY <1>1, <2>1, <2>3 DEF StreamInv, TypeOK
  <2>5. QueuesOfStreams'
    <3>1. ASSUME NEW p \in Printers
          PROVE  DOMAIN queues'[p] = {t \in Sessions : PrinterOf(t) = p /\ Streaming(t)'}
      BY <1>2, <2>2, <2>3 DEF StreamInv, QueuesOfStreams
    <3> QED BY <3>1 DEF QueuesOfStreams, PrinterOf
  <2>6. RunsStream'
    BY <1>1, <1>3, <2>2 DEF StreamInv, RunsStream
  <2>7. Delivery'
    <3>1. ASSUME NEW t \in Sessions, t # s, Streaming(t)
          PROVE  queues'[PrinterOf(t)][t] = queues[PrinterOf(t)][t]
      BY <2>3, <3>1, Kinds, StreamHasQueue
    <3> QED BY <1>1, <2>2, <3>1 DEF StreamInv, Delivery, PrinterOf
  <2>8. ClientSeesOwnRun'
    BY <1>1 DEF StreamInv, ClientSeesOwnRun, IsPrefix
  <2> QED BY <2>4, <2>5, <2>6, <2>7, <2>8 DEF StreamInv
<1>4. CASE run[s] # "dead"
  <2>1. at' = [at EXCEPT ![s] = "taking"] /\ queues' = queues
    BY <1>4 DEF Poll
  <2>2. /\ \A t \in Sessions : Streaming(t)' <=> Streaming(t)
        /\ \A t \in Sessions : (at'[t] = "answered") <=> (at[t] = "answered")
    BY <1>1, <2>1 DEF StreamInv, TypeOK, Streaming
  <2>3. TypeOK'
    BY <1>1, <2>1 DEF StreamInv, TypeOK
  <2>4. QueuesOfStreams'
    <3>1. ASSUME NEW p \in Printers
          PROVE  DOMAIN queues'[p] = {t \in Sessions : PrinterOf(t) = p /\ Streaming(t)'}
      BY <2>1, <2>2 DEF StreamInv, QueuesOfStreams
    <3> QED BY <3>1 DEF QueuesOfStreams, PrinterOf
  <2>5. RunsStream'
    BY <1>1, <2>2 DEF StreamInv, RunsStream
  <2>6. Delivery'
    BY <1>1, <2>1, <2>2 DEF StreamInv, Delivery, PrinterOf
  <2>7. ClientSeesOwnRun'
    BY <1>1 DEF StreamInv, ClientSeesOwnRun, IsPrefix
  <2> QED BY <2>3, <2>4, <2>5, <2>6, <2>7 DEF StreamInv
<1> QED BY <1>3, <1>4

\* A message taken from the queue goes to the end of what the client has been sent.
LEMMA GetKeeps ==
  ASSUME StreamInv, NEW s \in Sessions, Get(s)
  PROVE  StreamInv'
<1> DEFINE P == PrinterOf(s)
           q == queues[P][s]
<1>1. /\ at[s] = "taking" /\ Streaming(s) /\ at' = [at EXCEPT ![s] = "polling"]
      /\ UNCHANGED <<ask, cfg, tmp, defaults, root, run, wrote>>
  BY DEF Get, Streaming
<1>2. P \in Printers /\ s \in DOMAIN queues[P] /\ q \in Seq(LogRecords)
  BY <1>1, StreamHasQueue DEF StreamInv, TypeOK
<1>3. /\ \A t \in Sessions : Streaming(t)' <=> Streaming(t)
      /\ \A t \in Sessions : (at'[t] = "answered") <=> (at[t] = "answered")
  BY <1>1 DEF StreamInv, TypeOK, Streaming
<1>4. got[s] \in Seq(LogRecords) /\ wrote[s] \in Seq(LogRecords)
  BY DEF StreamInv, TypeOK
<1>5. /\ got'[s] \in Seq(LogRecords) /\ queues'[P][s] \in Seq(LogRecords)
      /\ got'[s] \o queues'[P][s] = got[s] \o q
      /\ q = <<>> => got'[s] = got[s] /\ queues'[P][s] = <<>>
      /\ got' \in [Sessions -> Seq(LogRecords)]
      /\ \A t \in Sessions \ {s} : got'[t] = got[t]
      /\ DOMAIN queues' = Printers
      /\ \A p \in Printers : DOMAIN queues'[p] = DOMAIN queues[p]
      /\ \A p \in Printers : \A n \in DOMAIN queues[p] :
            p # P \/ n # s => queues'[p][n] = queues[p][n]
  <2>1. CASE q = <<>>
    <3>1. got' = got /\ queues' = queues
      BY <2>1 DEF Get, ThreadName
    <3> QED BY <1>2, <1>4, <2>1, <3>1 DEF StreamInv, TypeOK
  <2>2. CASE q # <<>>
    <3>1. /\ got' = [got EXCEPT ![s] = Append(@, Head(q))]
          /\ queues' = [queues EXCEPT ![P][s] = Tail(q)]
      BY <2>2 DEF Get, ThreadName
    <3>2. /\ Append(got[s], Head(q)) \o Tail(q) = got[s] \o q
          /\ Tail(q) \in Seq(LogRecords) /\ Append(got[s], Head(q)) \in Seq(LogRecords)
      <4> HIDE DEF q
      <4> QED BY <1>2, <1>4, <2>2, HeadMoves
    <3>3. /\ got'[s] = Append(got[s], Head(q))
          /\ got' \in [Sessions -> Seq(LogRecords)]
          /\ \A t \in Sessions \ {s} : got'[t] = got[t]
      <4> HIDE DEF q
      <4> QED BY <3>1, <3>2 DEF StreamInv, TypeOK
    <3>4. /\ queues'[P][s] = Tail(q)
          /\ DOMAIN queues' = Printers
          /\ \A p \in Printers : DOMAIN queues'[p] = DOMAIN queues[p]
          /\ \A p \in Printers : \A n \in DOMAIN queues[p] :
                p # P \/ n # s => queues'[p][n] = queues[p][n]
      <4>1. DOMAIN queues = Printers
        BY DEF StreamInv, TypeOK
      <4> HIDE DEF P, q
      <4> QED BY <1>2, <3>1, <4>1
    <3> HIDE DEF q
    <3> QED BY <2>2, <3>2, <3>3, <3>4
  <2> QED BY <2>1, <2>2
<1>6. TypeOK'
  <2>1. at' \in [Sessions -> {"new", "opening", "writing", "merging", "logging",
                              "polling", "taking", "answered", "failed"}]
    BY <1>1 DEF StreamInv, TypeOK
  <2>2. \A p \in Printers : \A n \in DOMAIN queues'[p] : queues'[p][n] \in Seq(LogRecords)
    <3>1. \A p \in Printers : \A n \in DOMAIN queues[p] : queues[p][n] \in Seq(LogRecords)
      BY DEF StreamInv, TypeOK
    <3> HIDE DEF P, q
    <3> QED BY <1>5, <3>1
  <2> QED BY <1>1, <1>5, <2>1, <2>2 DEF StreamInv, TypeOK
<1>7. QueuesOfStreams'
  <2>1. ASSUME NEW p \in Printers
        PROVE  DOMAIN queues'[p] = {t \in Sessions : PrinterOf(t) = p /\ Streaming(t)'}
    BY <1>3, <1>5 DEF StreamInv, QueuesOfStreams
  <2> QED BY <2>1 DEF QueuesOfStreams, PrinterOf
<1>8. RunsStream'
  BY <1>1, <1>3, <1>5 DEF StreamInv, RunsStream
<1>9. Delivery'
  <2>1. ASSUME NEW t \in Sessions, Streaming(t)
        PROVE  IF root.printer = PrinterOf(t)
               THEN wrote[t] = got'[t] \o queues'[PrinterOf(t)][t]
               ELSE queues'[PrinterOf(t)][t] = <<>> /\ got'[t] = <<>>
    <3>1. IF root.printer = PrinterOf(t)
          THEN wrote[t] = got[t] \o queues[PrinterOf(t)][t]
          ELSE queues[PrinterOf(t)][t] = <<>> /\ got[t] = <<>>
      BY <2>1 DEF StreamInv, Delivery
    <3>2. CASE t = s
      BY <1>5, <3>1, <3>2
    <3>3. CASE t # s
      <4>1. PrinterOf(t) \in Printers /\ t \in DOMAIN queues[PrinterOf(t)]
        BY <2>1, StreamHasQueue DEF StreamInv, TypeOK
      <4> QED BY <1>5, <3>1, <3>3, <4>1
    <3> QED BY <3>2, <3>3
  <2> QED BY <1>1, <1>3, <2>1 DEF Delivery, PrinterOf
<1>10. ClientSeesOwnRun'
  <2>1. IsPrefix(got'[s], wrote[s])
    <3>1. wrote[s] = got'[s] \o (queues'[P][s]) \/ got'[s] = <<>>
      BY <1>1, <1>3, <1>9 DEF Delivery, PrinterOf
    <3>2. wrote[s] = <<>> \o wrote[s]
      BY <1>4, ConcatEmptySeq
    <3> HIDE DEF P, q
    <3>3. CASE wrote[s] = got'[s] \o (queues'[P][s])
      <4>1. IsPrefix(got'[s], got'[s] \o (queues'[P][s]))
        BY <1>5, PrefixOfConcat
      <4> QED BY <3>3, <4>1
    <3>4. CASE got'[s] = <<>>
      <4>1. IsPrefix(got'[s], got'[s] \o wrote[s])
        BY <1>4, <1>5, PrefixOfConcat
      <4> QED BY <3>2, <3>4, <4>1
    <3> QED BY <3>1, <3>3, <3>4
  <2>2. \A t \in Sessions \ {s} : IsPrefix(got'[t], wrote'[t])
    BY <1>1, <1>5 DEF StreamInv, ClientSeesOwnRun, IsPrefix
  <2> QED BY <1>1, <2>1, <2>2 DEF ClientSeesOwnRun
<1> QED BY <1>6, <1>7, <1>8, <1>9, <1>10 DEF StreamInv

LEMMA StreamInit == Init => StreamInv
<1> SUFFICES ASSUME Init PROVE StreamInv
  OBVIOUS
<1>1. <<>> \in Seq(LogRecords) /\ DOMAIN <<>> = {}
  OBVIOUS
<1>2. \A s \in Sessions : ~ Streaming(s) /\ at[s] = "new"
  BY DEF Init, Streaming
<1>3. \A p \in Printers : queues[p] = <<>>
  BY DEF Init, Printers
<1>4. TypeOK
  <2>1. root \in [printer : Printers \cup {Unset}, level : Nat, filters : SUBSET Nat]
    BY DEF Init
  <2> QED BY <1>1, <1>3, <2>1 DEF Init, TypeOK, Printers
<1>5. QueuesOfStreams
  BY <1>1, <1>2, <1>3 DEF QueuesOfStreams
<1>6. RunsStream
  BY <1>2 DEF RunsStream, Init
<1>7. Delivery
  BY <1>2 DEF Delivery
<1>8. ClientSeesOwnRun
  <2>1. IsPrefix(<<>>, <<>>)
    <3>1. IsPrefix(<<>>, <<>> \o <<>>)
      BY <1>1, PrefixOfConcat
    <3>2. <<>> \o <<>> = <<>>
      BY <1>1, ConcatEmptySeq
    <3> QED BY <3>1, <3>2
  <2> QED BY <2>1 DEF ClientSeesOwnRun, Init
<1> QED BY <1>4, <1>5, <1>6, <1>7, <1>8 DEF StreamInv

LEMMA StreamStep == WebAssumption /\ StreamInv /\ [Next]_vars => StreamInv'
<1> SUFFICES ASSUME WebAssumption, StreamInv, [Next]_vars PROVE StreamInv'
  OBVIOUS
<1>1. CASE UNCHANGED vars
  BY <1>1 DEF vars, StreamInv, TypeOK, QueuesOfStreams, RunsStream, Delivery,
              ClientSeesOwnRun, IsPrefix, Streaming, PrinterOf
<1>2. ASSUME NEW s \in Sessions, Handler(s) PROVE StreamInv'
  BY <1>2, BeforeRun, StartKeeps, PollKeeps, GetKeeps DEF Handler
<1>3. ASSUME NEW s \in Sessions, RunThread(s) PROVE StreamInv'
  BY <1>3, ThreadKeeps, LogKeeps DEF RunThread
<1> QED BY <1>1, <1>2, <1>3 DEF Next

\* Whatever the requests carry and however many are served at once: a printer
\* has a queue for exactly the runs that are being sent, and what a run has
\* logged is what its client got and then its queue (Printer and Streamer).
THEOREM StreamsInvariant == Spec => []StreamInv
BY WebAssumption, StreamInit, StreamStep, PTL DEF Spec

\* A client is sent the records of its own run, in order and none twice, while
\* other runs log to the same root logger.
THEOREM ClientsSeeTheirRuns == Spec => []ClientSeesOwnRun
<1>1. StreamInv => ClientSeesOwnRun
  BY DEF StreamInv
<1> QED BY <1>1, StreamsInvariant, PTL

(***************************************************************************)
(* Configurations                                                          *)
(***************************************************************************)
FileInv == MetKnown /\ WritersMet /\ FileIsOwn /\ ConfigIsOwn

\* What a request wrote, and whom it met, stays what it was.
LEMMA SameMeetings ==
  ASSUME UNCHANGED ask, NEW s \in Sessions, met'[s] = met[s]
  PROVE  /\ \A o, v : FromMet(s, o, v) <=> FromMet(s, o, v)'
         /\ OwnFile(s)' = OwnFile(s)
BY DEF FromMet, OwnFile

\* The configuration of a request that does not use the file stays fitting.
LEMMA SameConfig ==
  ASSUME UNCHANGED ask, NEW s \in Sessions, met'[s] = met[s], cfg'[s] = cfg[s], ConfigFits(s)
  PROVE  ConfigFits(s)'
BY SameMeetings DEF ConfigFits

\* The steps that stay out of the configuration: none uses the file.
LEMMA ConfigKept ==
  ASSUME ConfigInv, NEW s \in Sessions,
         NEW v \in {"opening", "polling", "taking", "answered", "failed"},
         at[s] \in {"new", "logging", "polling", "taking"},
         v = "opening" => s \in Sockets, at[s] = "new" => v \in {"opening", "failed"},
         at' = [at EXCEPT ![s] = v] \/ at' = at,
         UNCHANGED <<ask, cfg, tmp, met, defaults>>
  PROVE  FileInv'
<1>1. /\ \A t \in Sessions : UsesFile(t)' => at'[t] = at[t]
      /\ \A t \in Sessions : at'[t] = "opening" => t \in Sockets
      /\ \A t \in Sessions : at'[t] \in {"logging", "polling", "taking", "answered"} =>
            at[t] \in {"logging", "polling", "taking", "answered"}
  BY DEF ConfigInv, StreamInv, TypeOK, FileIsOwn, UsesFile
<1>2. MetKnown' /\ WritersMet'
  BY <1>1 DEF ConfigInv, MetKnown, WritersMet, UsesFile, HoldsFile
<1>3. FileIsOwn'
  <2> SUFFICES ASSUME NEW t \in Sessions
               PROVE  /\ at'[t] \in {"opening", "writing", "merging"} => t \in Sockets
                      /\ UsesFile(t)' /\ met'[t] = {} =>
                            tmp' = IF at'[t] = "merging" THEN Cast(ask'[t]) ELSE <<>>
                      /\ UsesFile(t)' => \A o \in DOMAIN tmp' \cap DOMAIN DefaultCfg : FromMet(t, o, tmp[o])'
    BY DEF FileIsOwn
  <2> QED BY <1>1, SameMeetings DEF ConfigInv, FileIsOwn, UsesFile
<1>4. ConfigIsOwn'
  BY <1>1, SameConfig DEF ConfigInv, ConfigIsOwn
<1> QED BY <1>2, <1>3, <1>4 DEF FileInv

\* A merge leaves the defaults as they are, and the configuration fits when the
\* file merged is the request's own and that of those it met.
LEMMA ConfigMerged ==
  ASSUME ConfigInv, NEW s \in Sessions, NEW file, MergeInto(s, file),
         met[s] = {} => file = OwnFile(s),
         \A o \in DOMAIN file \cap DOMAIN DefaultCfg : FromMet(s, o, file[o]),
         UNCHANGED <<ask, tmp, met>>
  PROVE  FileInv'
<1>1. PICK v \in {"failed", "logging"} : at' = [at EXCEPT ![s] = v]
  BY DEF MergeInto
<1>2. at'[s] = v /\ \A t \in Sessions : t # s => at'[t] = at[t]
  BY <1>1 DEF ConfigInv, StreamInv, TypeOK
<1>3. MetKnown' /\ WritersMet'
  BY <1>2 DEF ConfigInv, MetKnown, WritersMet, UsesFile, HoldsFile
<1>4. FileIsOwn'
  BY <1>2, SameMeetings DEF ConfigInv, FileIsOwn, UsesFile
<1>5. ConfigIsOwn'
  <2>1. CASE MergeFails(file)
    <3>1. at'[s] = "failed" /\ UNCHANGED <<cfg, defaults>>
      BY <2>1 DEF MergeInto, ConfigInv, StreamInv, TypeOK
    <3> QED BY <1>2, <3>1, SameConfig DEF ConfigInv, ConfigIsOwn
  <2>2. CASE ~ MergeFails(file)
    <3>1. defaults' = defaults /\ cfg' = [cfg EXCEPT ![s] = Merge(defaults, file)]
      BY <2>2 DEF MergeInto, DefaultsAfter
    <3>2. cfg'[s] = Merge(DefaultCfg, file) /\ \A t \in Sessions \ {s} : cfg'[t] = cfg[t]
      BY <3>1 DEF ConfigInv, ConfigIsOwn, StreamInv, TypeOK
    <3>3. met'[s] = {} => cfg'[s] = Merge(DefaultCfg, OwnFile(s)')
      BY <3>2, SameMeetings
    <3>4. ASSUME NEW o \in DOMAIN DefaultCfg
          PROVE  cfg'[s][o] = DefaultCfg[o] \/ FromMet(s, o, cfg[s][o])'
      <4>1. cfg'[s][o] = IF o \in DOMAIN file THEN file[o] ELSE DefaultCfg[o]
        BY <3>2 DEF Merge
      <4>2. CASE o \in DOMAIN file
        <5>1. FromMet(s, o, file[o])'
          BY <4>2, SameMeetings
        <5> QED BY <4>1, <4>2, <5>1 DEF FromMet
      <4> QED BY <4>1, <4>2
    <3>5. ConfigFits(s)'
      BY <3>3, <3>4 DEF ConfigFits
    <3> QED BY <1>2, <3>1, <3>2, <3>5, SameConfig DEF ConfigInv, ConfigIsOwn
  <2> QED BY <2>1, <2>2
<1> QED BY <1>3, <1>4, <1>5 DEF FileInv

\* A request that empties the file meets all who use it.
LEMMA FileOpened ==
  ASSUME ConfigInv, NEW s \in Sessions, OpenFile(s)
  PROVE  FileInv'
<1>1. s \in Sockets
  BY DEF OpenFile, ConfigInv, FileIsOwn
<1>2. /\ at'[s] = "writing" /\ tmp' = <<>> /\ UNCHANGED <<ask, cfg, defaults>>
      /\ \A t \in Sessions : t # s => at'[t] = at[t]
  BY DEF OpenFile, ConfigInv, StreamInv, TypeOK
<1>3. /\ met'[s] = {u \in Sockets : HoldsFile(u)}
      /\ \A t \in Sessions : t # s => met'[t] = IF UsesFile(t) THEN met[t] \cup {s} ELSE met[t]
  BY DEF OpenFile
<1>4. MetKnown'
  BY <1>1 DEF OpenFile, ConfigInv, MetKnown
<1>5. WritersMet'
  <2> SUFFICES ASSUME NEW t \in Sessions, NEW u \in Sessions, UsesFile(t)', HoldsFile(u)', t # u
               PROVE  u \in met'[t]
    BY DEF WritersMet
  <2>1. CASE t = s
    BY <1>2, <1>3, <2>1 DEF HoldsFile, ConfigInv, FileIsOwn
  <2>2. CASE t # s /\ u = s
    BY <1>2, <1>3, <2>2 DEF UsesFile
  <2>3. CASE t # s /\ u # s
    BY <1>2, <1>3, <2>3 DEF UsesFile, HoldsFile, ConfigInv, WritersMet
  <2> QED BY <2>1, <2>2, <2>3
<1>6. FileIsOwn'
  <2>1. DOMAIN tmp' = {}
    BY <1>2
  <2>2. \A t \in Sessions : UsesFile(t)' /\ t # s => met'[t] # {}
    BY <1>2, <1>3 DEF UsesFile
  <2> QED BY <1>1, <1>2, <2>1, <2>2 DEF FileIsOwn, ConfigInv
<1>7. ConfigIsOwn'
  <2>1. ASSUME NEW t \in Sessions, at'[t] \in {"logging", "polling", "taking", "answered"}
        PROVE  ConfigFits(t)'
    <3>1. t # s /\ met'[t] = met[t] /\ cfg'[t] = cfg[t] /\ at'[t] = at[t]
      BY <1>2, <1>3, <2>1 DEF UsesFile
    <3> QED BY <1>2, <2>1, <3>1, SameConfig DEF ConfigInv, ConfigIsOwn
  <2> QED BY <1>2, <2>1 DEF ConfigInv, ConfigIsOwn
<1> QED BY <1>4, <1>5, <1>6, <1>7 DEF FileInv

\* What is in the file after a flush comes from it or was there before.
LEMMA OverlaidFrom ==
  ASSUME NEW old, NEW new, NEW file \in Overlaid(old, new),
         NEW o \in DOMAIN file \cap DOMAIN DefaultCfg
  PROVE  \/ o \in DOMAIN old /\ file[o] = old[o]
         \/ o \in DOMAIN new /\ file[o] = new[o]
<1>1. CASE file = Torn
  BY <1>1 DEF Torn, DefaultCfg
<1>2. CASE file # Torn
  <2>1. PICK kept \in SUBSET DOMAIN old :
          file = [q \in DOMAIN new \cup kept |-> IF q \in kept THEN old[q] ELSE new[q]]
    BY <1>2 DEF Overlaid
  <2> QED BY <2>1
<1> QED BY <1>1, <1>2

\* Over an empty file, a flush writes what it should.
LEMMA OverlaidEmpty ==
  ASSUME NEW a, NEW file \in Overlaid(<<>>, Cast(a))
  PROVE  file = Cast(a)
<1>1. file \in {[o \in DOMAIN Cast(a) \cup kept |-> IF o \in kept THEN <<>>[o] ELSE Cast(a)[o]] :
                   kept \in SUBSET {}}
  <2>1. DOMAIN <<>> = {}
    OBVIOUS
  <2> QED BY <2>1 DEF Overlaid
<1>2. file = [o \in DOMAIN Cast(a) |-> Cast(a)[o]]
  BY <1>1
<1> QED BY <1>2 DEF Cast

\* A request that flushes its text has met all who use the file.
LEMMA FileWritten ==
  ASSUME ConfigInv, NEW s \in Sessions, WriteFile(s)
  PROVE  FileInv'
<1>1. s \in Sockets /\ OwnFile(s) = Cast(ask[s])
  BY DEF WriteFile, ConfigInv, FileIsOwn, OwnFile
<1>2. /\ at[s] = "writing" /\ at'[s] = "merging" /\ UNCHANGED <<ask, cfg, met, defaults>>
      /\ tmp' \in Overlaid(tmp, Cast(ask[s]))
      /\ \A t \in Sessions : t # s => at'[t] = at[t]
  BY DEF WriteFile, ConfigInv, StreamInv, TypeOK
<1>3. MetKnown' /\ WritersMet'
  BY <1>2 DEF ConfigInv, MetKnown, WritersMet, UsesFile, HoldsFile
<1>4. \A t \in Sessions : UsesFile(t)' => UsesFile(t) /\ s \in {t} \cup met[t]
  BY <1>2 DEF ConfigInv, WritersMet, UsesFile, HoldsFile
<1>5. ASSUME NEW t \in Sessions
      PROVE  /\ at'[t] \in {"opening", "writing", "merging"} => t \in Sockets
             /\ UsesFile(t)' /\ met'[t] = {} =>
                   tmp' = IF at'[t] = "merging" THEN Cast(ask'[t]) ELSE <<>>
             /\ UsesFile(t)' => \A o \in DOMAIN tmp' \cap DOMAIN DefaultCfg : FromMet(t, o, tmp[o])'
  <2>1. at'[t] \in {"opening", "writing", "merging"} => t \in Sockets
    BY <1>1, <1>2 DEF ConfigInv, FileIsOwn
  <2>2. ASSUME UsesFile(t)', met'[t] = {}
        PROVE  tmp' = IF at'[t] = "merging" THEN Cast(ask'[t]) ELSE <<>>
    <3>1. t = s
      BY <1>2, <1>4, <2>2
    <3>2. tmp = <<>>
      BY <1>2, <2>2, <3>1 DEF ConfigInv, FileIsOwn, UsesFile
    <3> QED BY <1>2, <3>1, <3>2, OverlaidEmpty
  <2>3. ASSUME UsesFile(t)', NEW o \in DOMAIN tmp' \cap DOMAIN DefaultCfg
        PROVE  FromMet(t, o, tmp[o])'
    <3>1. FromMet(t, o, tmp'[o])
      <4>1. CASE o \in DOMAIN tmp /\ tmp'[o] = tmp[o]
        <5>1. FromMet(t, o, tmp[o])
          BY <1>4, <2>3, <4>1 DEF ConfigInv, FileIsOwn
        <5> QED BY <4>1, <5>1
      <4>2. CASE o \in DOMAIN Cast(ask[s]) /\ tmp'[o] = Cast(ask[s])[o]
        BY <1>1, <1>4, <2>3, <4>2 DEF FromMet
      <4> QED BY <1>2, <4>1, <4>2, OverlaidFrom
    <3> QED BY <1>2, <3>1 DEF FromMet, OwnFile
  <2> QED BY <2>1, <2>2, <2>3
<1>6. FileIsOwn'
  BY <1>5 DEF FileIsOwn
<1>7. ConfigIsOwn'
  BY <1>2, SameConfig DEF ConfigInv, ConfigIsOwn
<1> QED BY <1>3, <1>6, <1>7 DEF FileInv

LEMMA ConfigStep ==
  ASSUME WebAssumption, ConfigInv, [Next]_vars
  PROVE  ConfigInv'
<1>1. StreamInv'
  BY StreamStep DEF ConfigInv
<1>2. CASE UNCHANGED vars
  BY <1>1, <1>2 DEF vars, ConfigInv, MetKnown, WritersMet, FileIsOwn, ConfigIsOwn, ConfigFits,
                    FromMet, OwnFile, UsesFile, HoldsFile
<1>3. ASSUME NEW s \in Sessions, Handler(s) \/ RunThread(s)
      PROVE  FileInv'
  <2>1. CASE Receive(s)
    BY <2>1, ConfigKept DEF Receive
  <2>2. CASE OpenFile(s) \/ WriteFile(s)
    BY <2>2, FileOpened, FileWritten
  <2>3. CASE MergeFile(s)
    <3>1. UsesFile(s) /\ OwnFile(s) = Cast(ask[s]) /\ at[s] = "merging"
      BY <2>3 DEF MergeFile, ConfigInv, FileIsOwn, OwnFile, UsesFile
    <3>2. /\ met[s] = {} => tmp = OwnFile(s)
          /\ \A o \in DOMAIN tmp \cap DOMAIN DefaultCfg : FromMet(s, o, tmp[o])
      BY <3>1 DEF ConfigInv, FileIsOwn
    <3> QED BY <2>3, <3>2, ConfigMerged DEF MergeFile
  <2>4. CASE OpenPage(s)
    <3>1. FixedFile = OwnFile(s)
      BY <2>4 DEF OpenPage, OwnFile, WebAssumption
    <3>2. \A o \in DOMAIN FixedFile : FromMet(s, o, FixedFile[o])
      BY <3>1 DEF FromMet
    <3> QED BY <2>4, <3>1, <3>2, ConfigMerged DEF OpenPage
  <2>5. CASE StartRun(s)
    BY <2>5, ConfigKept DEF StartRun
  <2>6. CASE Poll(s)
    BY <2>6, ConfigKept DEF Poll
  <2>7. CASE Get(s)
    BY <2>7, ConfigKept DEF Get
  <2>8. CASE RunThread(s)
    <3>1. UNCHANGED <<ask, at, cfg, tmp, met, defaults>>
      BY <2>8 DEF RunThread, RunStarts, RunEnds, Log
    <3> QED BY <3>1 DEF FileInv, ConfigInv, MetKnown, WritersMet, FileIsOwn, ConfigIsOwn,
                        ConfigFits, FromMet, OwnFile, UsesFile, HoldsFile
  <2> QED BY <1>3, <2>1, <2>2, <2>3, <2>4, <2>5, <2>6, <2>7, <2>8 DEF Handler
<1> QED BY <1>1, <1>2, <1>3 DEF Next, ConfigInv, FileInv

\* For any number of requests served at once: a run uses the options its client
\* filled in and the defaults for the others, whatever ran before it, unless
\* another request had tmp.yaml open for writing while this one used it; and then
\* each option is its own, the default or that of such a request.
THEOREM RunsUseTheirConfig == Spec => []RunsOwnConfig
<1>1. Init => ConfigInv
  <2> SUFFICES ASSUME Init PROVE ConfigInv
    OBVIOUS
  <2>1. \A s \in Sessions : at[s] = "new"
    BY DEF Init
  <2> QED BY <2>1, StreamInit
          DEF Init, ConfigInv, MetKnown, WritersMet, FileIsOwn, ConfigIsOwn, UsesFile, Sessions
<1>2. ConfigInv /\ [Next]_vars => ConfigInv'
  BY WebAssumption, ConfigStep
<1>3. ConfigInv => RunsOwnConfig
  <2> SUFFICES ASSUME ConfigInv, NEW s \in Sessions, run[s] # "new"
               PROVE  ConfigFits(s)
    BY DEF RunsOwnConfig
  <2>1. at[s] \in {"polling", "taking", "answered"}
    BY DEF ConfigInv, StreamInv, RunsStream, Streaming
  <2> QED BY <2>1 DEF ConfigInv, ConfigIsOwn
<1> QED BY <1>1, <1>2, <1>3, PTL DEF Spec
=============================================================================
