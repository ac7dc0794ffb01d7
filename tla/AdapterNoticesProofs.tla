------------------------- MODULE AdapterNoticesProofs -------------------------
(***************************************************************************)
(* Proofs about AdapterNotices, for any number of notices, timer callbacks, *)
(* runs and windows.                                                        *)
(***************************************************************************)
EXTENDS AdapterNotices, TLAPS

(* What a flush that is not under way holds, and what one that is under way has   *)
(* taken out of the spool: nobody else sends it.                                 *)
FlushesAreSole ==
  /\ \A f \in Flusher : flush[f].at = "idle" => flush[f] = NoFlush
  /\ \A n \in Notice : (n \in spool \/ n > written) => sent[n] = 0
  /\ \A f \in Flusher : \A n \in flush[f].ready :
       n \notin spool /\ sent[n] = 0 /\ n \notin flush[f].stale
  /\ \A f \in Flusher : \A n \in Notice :
       flush[f].at = "removing" /\ flush[f].found /\ First(flush[f].names, n) => n \in spool
  /\ ~untimely /\ \A n \in Notice : sent[n] <= 1

FlushInv == FlushTypeOK /\ FlushesAreSole

-----------------------------------------------------------------------------
(* The types of the start and the stop handler. *)
LEMMA StartTypeInitially == Init => StartTypeOK
<1> SUFFICES ASSUME Init PROVE StartTypeOK OBVIOUS
<1>1. /\ start \in {"down", "reading", "writing", "announcing", "flush", "flushing", "running"}
      /\ stop \in [Signal -> {"none", "reading", "stamping", "stopped"}]
      /\ start = "down" => (\A s \in Signal : stop[s] = "none") /\ ~own
      /\ start # "announcing" => standing = 0
  BY DEF Init
<1>2. marker \in Markers /\ startRead \in Markers /\ stopRead \in [Signal -> Markers]
  BY NoticeBounds DEF NoticeBounds, Init, NoMarker, Markers, Never
<1>3. now \in 1 .. MaxWindows /\ window \in 1 .. MaxWindows /\ told \subseteq 1 .. MaxWindows
  BY NoticeBounds DEF NoticeBounds, Init
<1>4. owner \in BOOLEAN /\ timer \in BOOLEAN /\ own \in BOOLEAN /\ twice \in BOOLEAN /\ early \in BOOLEAN
  BY DEF Init
<1>5. died \in Nat /\ reported \in Nat /\ unsent \in Nat /\ standing \in Nat /\ ends \in Nat /\ faults \in Nat
  BY DEF Init
<1> QED BY <1>1, <1>2, <1>3, <1>4, <1>5 DEF StartTypeOK

LEMMA Stamped == ASSUME NEW m \in Markers PROVE [m EXCEPT !.clean = TRUE] \in Markers
  BY DEF Markers

LEMMA StartTypeIsInductive == StartTypeOK /\ [Next]_vars => StartTypeOK'
<1> SUFFICES ASSUME StartTypeOK, [Next]_vars PROVE StartTypeOK' OBVIOUS
<1> USE NoticeBounds DEF NoticeBounds, StartTypeOK, process, disk, flushes, accounts, outside
<1>0. NoMarker \in Markers BY DEF NoMarker, Markers, Never
<1>1. CASE Boot BY <1>1 DEF Boot
<1>2. CASE ReadMarker
  <2>1. startRead' \in Markers BY <1>2, <1>0, Zenon DEF ReadMarker
  <2>2. faults' \in Nat BY <1>2, SMT DEF ReadMarker, Fault, NoFault
  <2>3. start = "reading" /\ start' = "writing"
        /\ UNCHANGED <<stop, now, standing, stopRead, timer, disk, accounts, window>>
    BY <1>2, Zenon DEF ReadMarker
  <2> QED BY <2>1, <2>2, <2>3
<1>3. CASE WriteMarker
  <2>0. DEFINE new == [exists |-> TRUE, clean |-> FALSE, suppressed |-> NextSuppressed,
                      announced |-> IF Announce THEN now ELSE startRead.announced]
  <2>1. NextSuppressed \in Nat /\ Standing \in Nat BY SMT DEF NextSuppressed, Standing, Markers
  <2>2. new \in Markers BY <2>1, SMT DEF Markers
  <2>3. marker' \in Markers BY <1>3, <2>2, Zenon DEF WriteMarker
  <2>4. start = "writing" /\ standing = 0 BY <1>3, Zenon DEF WriteMarker
  <2>5. standing' \in Nat /\ unsent' \in Nat /\ faults' \in Nat
    BY <1>3, <2>1, SMT DEF WriteMarker, Fault, NoFault
  <2>6. start' \in {"announcing", "flush"} /\ (start' # "announcing" => standing' = 0)
    BY <1>3, <2>4, Zenon DEF WriteMarker
  <2>7. startRead' \in Markers /\ now' = 1 BY <1>3, <1>0, Zenon DEF WriteMarker
  <2>8. told' \subseteq told \cup {now} BY <1>3, Zenon DEF WriteMarker
  <2>9. UNCHANGED <<stop, stopRead, timer, owner, died, reported, early, ends, window>>
    BY <1>3, Zenon DEF WriteMarker
  <2>10. own' \in BOOLEAN /\ twice' \in BOOLEAN
    BY <1>3, Zenon DEF WriteMarker, Fault, NoFault
  <2>11. start' # "down" BY <2>6
  <2> QED BY <2>3, <2>5, <2>6, <2>7, <2>8, <2>9, <2>10, <2>11
<1>4. CASE Announced
  <2>1. reported' \in Nat /\ unsent' \in Nat BY <1>4, SMT DEF Announced
  <2>2. start' = "flush" /\ standing' = 0
        /\ UNCHANGED <<stop, startRead, now, stopRead, timer, disk, own, died, told, twice, early, ends, window, faults>>
    BY <1>4, Zenon DEF Announced
  <2> QED BY <2>1, <2>2
<1>5. CASE StartFlushed BY <1>5 DEF StartFlushed
<1>6. ASSUME NEW s \in Signal, StopSignal(s) PROVE StartTypeOK'
  <2>1. early' \in BOOLEAN BY <1>6, Zenon DEF StopSignal
  <2>2. start # "down" /\ stop' = [stop EXCEPT ![s] = "reading"] /\ timer' = FALSE BY <1>6, Zenon DEF StopSignal, Up
  <2>3. UNCHANGED <<start, startRead, now, standing, stopRead, disk, own, died, reported, unsent, told, twice, ends, window, faults>>
    BY <1>6, Zenon DEF StopSignal
  <2>4. stop' \in [Signal -> {"none", "reading", "stamping", "stopped"}] BY <2>2
  <2> QED BY <2>1, <2>2, <2>3, <2>4
<1>7. ASSUME NEW s \in Signal, StopReads(s) PROVE StartTypeOK'
  <2>1. stop[s] = "reading" /\ stop' \in [Signal -> {"none", "reading", "stamping", "stopped"}]
    BY <1>7 DEF StopReads
  <2>2. start # "down" BY <2>1, Zenon
  <2>3. stopRead' \in [Signal -> Markers] BY <1>7 DEF StopReads
  <2>4. faults' \in Nat BY <1>7, SMT DEF StopReads, Fault, NoFault
  <2>5. UNCHANGED <<start, startRead, now, standing, timer, disk, accounts, window>> BY <1>7, Zenon DEF StopReads
  <2> QED BY <2>1, <2>2, <2>3, <2>4, <2>5
<1>8. ASSUME NEW s \in Signal, StopStamps(s) PROVE StartTypeOK'
  <2>0. [stopRead[s] EXCEPT !.clean = TRUE] \in Markers BY Stamped DEF StartTypeOK
  <2>1. marker' \in Markers BY <1>8, <2>0, Zenon DEF StopStamps
  <2>2. stop[s] = "stamping" /\ stop' \in [Signal -> {"none", "reading", "stamping", "stopped"}]
        /\ stopRead' \in [Signal -> Markers]
    BY <1>8, <1>0 DEF StopStamps
  <2>3. start # "down" BY <2>2, Zenon
  <2>4. faults' \in Nat BY <1>8, SMT DEF StopStamps, Fault, NoFault
  <2>5. UNCHANGED <<start, startRead, now, standing, timer, owner, accounts, window>> BY <1>8, Zenon DEF StopStamps
  <2> QED BY <2>1, <2>2, <2>3, <2>4, <2>5
<1>9. CASE End
  <2>1. startRead' \in Markers /\ stopRead' \in [Signal -> Markers] BY <1>9, <1>0 DEF End
  <2>2. ends' \in Nat /\ died' \in Nat /\ unsent' \in Nat BY <1>9, SMT DEF End
  <2>3. start' = "down" /\ own' = FALSE /\ timer' = FALSE /\ standing' = 0
        /\ UNCHANGED <<disk, reported, told, twice, early, window, faults>> BY <1>9, Zenon DEF End
  <2>4. now' \in 1 .. MaxWindows BY <1>9, SMT DEF End
  <2>5. stop' \in [Signal -> {"none", "reading", "stamping", "stopped"}] /\ \A s \in Signal : stop'[s] = "none"
    BY <1>9 DEF End
  <2> QED BY <2>1, <2>2, <2>3, <2>4, <2>5
<1>10. CASE Bind BY <1>10 DEF Bind
<1>11. CASE WriteNotice BY <1>11 DEF WriteNotice
<1>12. CASE \E n \in Perishable : Expire(n) BY <1>12 DEF Expire
<1>13. CASE WindowPasses BY <1>13 DEF WindowPasses
<1>14. ASSUME NEW f \in Flusher, FlushStep(f) PROVE StartTypeOK'
  <2>1. /\ start' \in {start, "flushing"} /\ (start = "down" => start' = "down")
        /\ start = "announcing" => start' = "announcing"
     BY <1>14, Zenon DEF FlushStep, BeginFlush, ListSpool, ReadNotice, RemoveNotice, SendNotice, EndFlush, Finally
  <2>2. faults' \in {faults, faults + 1}
     BY <1>14, Zenon DEF FlushStep, BeginFlush, ListSpool, ReadNotice, RemoveNotice, SendNotice, EndFlush, Fault, NoFault
  <2>3. UNCHANGED <<stop, startRead, now, standing, stopRead, timer, marker, owner, accounts, window>>
    BY <1>14, Zenon DEF FlushStep, BeginFlush, ListSpool, ReadNotice, RemoveNotice, SendNotice, EndFlush
  <2>4. faults' \in Nat BY <2>2, SMT
  <2> QED BY <2>1, <2>4, <2>3, Zenon
<1>15. CASE UNCHANGED vars BY <1>15 DEF vars
<1> QED
  BY <1>1, <1>2, <1>3, <1>4, <1>5, <1>6, <1>7, <1>8, <1>9, <1>10, <1>11, <1>12, <1>13, <1>14, <1>15
     DEF Next, StartStep, StopStep, Kill, Exit

-----------------------------------------------------------------------------
LEMMA FlushInvInitially == Init => FlushInv
<1> SUFFICES ASSUME Init PROVE FlushInv OBVIOUS
<1>1. NoFlush \in AFlush BY DEF NoFlush, AFlush
<1>2. flush = [f \in Flusher |-> NoFlush] /\ \A f \in Flusher : flush[f].at = "idle"
  BY DEF Init, NoFlush
<1>3. /\ written \in 0 .. MaxNotice /\ spool \subseteq 1 .. written /\ expired \subseteq Perishable
      /\ sent \in [Notice -> Nat] /\ \A n \in Notice : sent[n] = 0
  BY NoticeBounds DEF NoticeBounds, Init
<1>4. untimely = FALSE /\ flushing = FALSE BY DEF Init
<1>5. FlushTypeOK BY <1>1, <1>2, <1>3, <1>4 DEF FlushTypeOK
<1>6. FlushesAreSole
  BY <1>2, <1>3, <1>4 DEF FlushesAreSole, NoFlush, Init
<1> QED BY <1>5, <1>6 DEF FlushInv

(* The steps that touch neither the spool nor a flush. *)
LEMMA OthersKeepFlushInv ==
  ASSUME FlushInv, UNCHANGED <<written, spool, sent, untimely, flush, flushing>>, expired' \subseteq Perishable
  PROVE  FlushInv'
  BY DEF FlushInv, FlushTypeOK, FlushesAreSole, First, AFlush

LEMMA WriteKeepsFlushInv == ASSUME FlushInv, WriteNotice PROVE FlushInv'
<1>1. /\ written' = written + 1 /\ spool' = spool \cup {written'} /\ written' \in 1 .. MaxNotice
      /\ UNCHANGED <<expired, flush, flushing, sent, untimely>>
  BY NoticeBounds DEF NoticeBounds, WriteNotice, FlushInv, FlushTypeOK, flushes
<1>2. 1 .. written \subseteq 1 .. written' BY <1>1 DEF FlushInv, FlushTypeOK
<1>3. AFlush \subseteq AFlush' BY <1>2 DEF AFlush
<1>4. spool' \subseteq 1 .. written' BY <1>1 DEF FlushInv, FlushTypeOK
<1>5. FlushTypeOK' BY <1>1, <1>3, <1>4 DEF FlushInv, FlushTypeOK
<1>6. \A g \in Flusher : flush[g].ready \subseteq 1 .. written /\ flush[g].names \subseteq 1 .. written
  BY DEF FlushInv, FlushTypeOK, AFlush
<1>7. \A g \in Flusher : \A n \in flush[g].ready : n # written' BY <1>1, <1>6 DEF FlushInv, FlushTypeOK
<1>8. FlushesAreSole' BY <1>1, <1>7 DEF FlushInv, FlushTypeOK, FlushesAreSole, First, Notice
<1> QED BY <1>5, <1>8 DEF FlushInv

LEMMA NoFlushIsAFlush == NoFlush \in AFlush /\ NoFlush.at = "idle" /\ NoFlush.ready = {}
  BY DEF NoFlush, AFlush

LEMMA EndKeepsFlushInv == ASSUME FlushInv, End PROVE FlushInv'
<1>1. /\ flush' = [g \in Flusher |-> NoFlush] /\ flushing' = FALSE
      /\ UNCHANGED <<written, expired, spool, sent, untimely>>
  BY DEF End, disk, outside
<1>2. AFlush' = AFlush BY <1>1 DEF AFlush
<1>3. flush' \in [Flusher -> AFlush] /\ \A g \in Flusher : flush'[g] = NoFlush BY <1>1, NoFlushIsAFlush
<1>4. FlushTypeOK' BY <1>1, <1>2, <1>3, NoFlushIsAFlush DEF FlushInv, FlushTypeOK
<1>5. FlushesAreSole' BY <1>1, <1>3, NoFlushIsAFlush DEF FlushInv, FlushesAreSole
<1> QED BY <1>4, <1>5 DEF FlushInv

(* Every other flush is idle, so only what the one under way holds counts. *)
LEMMA FlushMoves ==
  ASSUME FlushInv, NEW f \in Flusher, flush[f].at # "idle",
         NEW next \in AFlush, next.at # "idle", flush' = [flush EXCEPT ![f] = next],
         UNCHANGED <<written, expired, flushing, untimely>>,
         spool' \subseteq spool, sent' \in [Notice -> Nat],
         \A n \in Notice : sent'[n] <= 1 /\ (n \in spool' \/ n > written => sent'[n] = 0),
         \A n \in next.ready : n \notin spool' /\ sent'[n] = 0 /\ n \notin next.stale,
         \A n \in Notice : next.at = "removing" /\ next.found /\ First(next.names, n) => n \in spool'
  PROVE  FlushInv'
<1>1. /\ flush' \in [Flusher -> AFlush] /\ flush'[f] = next
      /\ \A g \in Flusher \ {f} : flush'[g] = flush[g] /\ flush[g].at = "idle" /\ flush[g] = NoFlush
  BY DEF FlushInv, FlushTypeOK, FlushesAreSole
<1>2. AFlush' = AFlush BY DEF AFlush
<1>3. FlushTypeOK'
  <2>1. \A g, h \in Flusher : flush'[g].at # "idle" /\ flush'[h].at # "idle" => g = h BY <1>1
  <2>2. flushing' \in BOOLEAN /\ (flushing' <=> \E g \in Flusher : flush'[g].at # "idle")
    BY <1>1 DEF FlushInv, FlushTypeOK
  <2> QED BY <1>1, <1>2, <2>1, <2>2 DEF FlushInv, FlushTypeOK
<1>4. FlushesAreSole'
  <2>1. \A g \in Flusher : flush'[g].at = "idle" => flush'[g] = NoFlush BY <1>1
  <2>2. \A g \in Flusher : \A n \in flush'[g].ready : n \notin spool' /\ sent'[n] = 0 /\ n \notin flush'[g].stale
    BY <1>1 DEF NoFlush
  <2>3. \A g \in Flusher : \A n \in Notice :
          flush'[g].at = "removing" /\ flush'[g].found /\ First(flush'[g].names, n) => n \in spool'
    BY <1>1
  <2>4. ~untimely' BY DEF FlushInv, FlushesAreSole
  <2> QED BY <2>1, <2>2, <2>3, <2>4 DEF FlushesAreSole, First
<1> QED BY <1>3, <1>4 DEF FlushInv

LEMMA FlushEnds ==
  ASSUME FlushInv, NEW f \in Flusher, flush[f].at # "idle", Finally(f),
         UNCHANGED <<written, expired, untimely, spool, sent>>
  PROVE  FlushInv'
<1> USE NoFlushIsAFlush
<1>1. flush' = [flush EXCEPT ![f] = NoFlush] /\ flushing' = FALSE BY DEF Finally
<1>2. /\ flush' \in [Flusher -> AFlush]
      /\ \A g \in Flusher : flush'[g] = NoFlush
  BY <1>1 DEF FlushInv, FlushTypeOK, FlushesAreSole
<1>3. AFlush' = AFlush BY DEF AFlush
<1>4. FlushTypeOK' BY <1>1, <1>2, <1>3 DEF FlushInv, FlushTypeOK
<1>5. FlushesAreSole' BY <1>1, <1>2 DEF FlushInv, FlushesAreSole
<1> QED BY <1>4, <1>5 DEF FlushInv

(* A flush alone takes notices out of the spool, for no other is under way. *)
LEMMA FlushKeepsFlushInv ==
  ASSUME FlushInv, NEW f \in Flusher, FlushStep(f)
  PROVE  FlushInv'
<1>0. flush[f] \in AFlush /\ spool \in SUBSET (1 .. written) BY DEF FlushInv, FlushTypeOK
<1> USE <1>0 DEF disk, outside
<1>1. CASE BeginFlush(f) BY <1>1, NoFlushIsAFlush DEF FlushInv, FlushTypeOK, AFlush, BeginFlush, NoFlush, NotFlushing, First, FlushesAreSole
<1>2. CASE ListSpool(f)
  <2> DEFINE next == [flush[f] EXCEPT !.at = "reading", !.names = spool]
  <2>1. flush' = [flush EXCEPT ![f] = next] /\ flush[f].at = "listing" BY <1>2 DEF ListSpool
  <2>2. next \in AFlush /\ next.at = "reading" /\ next.ready = flush[f].ready /\ next.stale = flush[f].stale
    BY DEF AFlush
  <2>3. UNCHANGED <<written, spool, expired, sent, untimely, flushing>> BY <1>2 DEF ListSpool
  <2> HIDE DEF next
  <2> QED BY <2>1, <2>2, <2>3, FlushMoves DEF FlushInv, FlushTypeOK, FlushesAreSole
<1>3. CASE ReadNotice(f)
  <2>1. PICK n \in Notice :
          First(flush[f].names, n)
          /\ flush' = [flush EXCEPT ![f].at = "removing", ![f].found = n \in spool]
    BY <1>3 DEF ReadNotice
  <2> DEFINE there == n \in spool
             next == [flush[f] EXCEPT !.at = "removing", !.found = there]
  <2>2. flush' = [flush EXCEPT ![f] = next] /\ flush[f].at = "reading" BY <1>3, <2>1 DEF ReadNotice
  <2>3. next \in AFlush /\ next.at = "removing" /\ next.ready = flush[f].ready
        /\ next.stale = flush[f].stale /\ next.names = flush[f].names /\ next.found = there
    <3>1. there \in BOOLEAN OBVIOUS
    <3> HIDE DEF there
    <3> QED BY <3>1 DEF AFlush
  <2>4. UNCHANGED <<written, spool, expired, sent, untimely, flushing>> BY <1>3 DEF ReadNotice
  <2>5. \A m \in Notice : First(next.names, m) => m = n BY <2>1, <2>3 DEF First, Notice
  <2> HIDE DEF next
  <2>6. \A m \in Notice : next.found /\ First(next.names, m) => m \in spool' BY <2>3, <2>4, <2>5
  <2> QED BY <2>2, <2>3, <2>4, <2>6, FlushMoves DEF FlushInv, FlushTypeOK, FlushesAreSole
<1>4. CASE RemoveNotice(f)
  <2>1. PICK n \in Notice :
          /\ First(flush[f].names, n)
          /\ \/ /\ spool' = spool \ {n} /\ UNCHANGED flushing
                /\ flush' = [flush EXCEPT ![f].at = "reading", ![f].names = @ \ {n},
                               ![f].ready = @ \cup {m \in {n} : flush[f].found /\ m \notin flush[f].stale}]
             \/ UNCHANGED spool /\ Finally(f)
    BY <1>4 DEF RemoveNotice
  <2>2. UNCHANGED <<written, expired, sent, untimely>> /\ flush[f].at = "removing" BY <1>4 DEF RemoveNotice
  <2>3. CASE UNCHANGED spool /\ Finally(f) BY <2>2, <2>3, FlushEnds
  <2>4. CASE spool' = spool \ {n} /\ UNCHANGED flushing
             /\ flush' = [flush EXCEPT ![f].at = "reading", ![f].names = @ \ {n},
                            ![f].ready = @ \cup {m \in {n} : flush[f].found /\ m \notin flush[f].stale}]
    <3> DEFINE kept == {m \in {n} : flush[f].found /\ m \notin flush[f].stale}
               next == [flush[f] EXCEPT !.at = "reading", !.names = @ \ {n}, !.ready = @ \cup kept]
    <3>1. flush' = [flush EXCEPT ![f] = next] BY <2>4
    <3>2. flush[f].names \subseteq 1 .. written /\ n \in flush[f].names BY <2>1 DEF AFlush, First
    <3>3. kept \subseteq 1 .. written BY <3>2
    <3>4. next \in AFlush /\ next.at = "reading" /\ next.ready = flush[f].ready \cup kept /\ next.stale = flush[f].stale
      BY <3>3 DEF AFlush
    <3>5. \A m \in kept : m = n /\ n \in spool /\ m \notin flush[f].stale /\ sent[m] = 0
      BY <2>1, <2>2 DEF FlushInv, FlushesAreSole
    <3>6. \A m \in next.ready : m \notin spool' /\ sent'[m] = 0 /\ m \notin next.stale
      BY <2>2, <2>4, <3>4, <3>5 DEF FlushInv, FlushesAreSole
    <3>7. \A m \in Notice : sent'[m] <= 1 /\ (m \in spool' \/ m > written => sent'[m] = 0)
      BY <2>2, <2>4 DEF FlushInv, FlushesAreSole
    <3> HIDE DEF next
    <3> QED BY <2>2, <2>4, <3>1, <3>4, <3>6, <3>7, FlushMoves DEF FlushInv, FlushTypeOK
  <2> QED BY <2>1, <2>3, <2>4
<1>5. CASE SendNotice(f)
  <2>1. PICK n \in Notice :
          /\ First(flush[f].ready, n) /\ flush' = [flush EXCEPT ![f].ready = @ \ {n}]
          /\ \/ sent' = [sent EXCEPT ![n] = @ + 1] /\ untimely' = (untimely \/ n \in flush[f].stale)
             \/ UNCHANGED <<sent, untimely>>
    BY <1>5 DEF SendNotice
  <2> DEFINE next == [flush[f] EXCEPT !.ready = @ \ {n}]
  <2>2. flush' = [flush EXCEPT ![f] = next] BY <2>1
  <2>3. UNCHANGED <<written, spool, expired, flushing>> /\ flush[f].at = "reading" BY <1>5 DEF SendNotice
  <2>4. next \in AFlush /\ next.at = "reading" /\ next.ready = flush[f].ready \ {n} /\ next.stale = flush[f].stale
    BY <2>3 DEF AFlush
  <2>5. n \in flush[f].ready /\ n \notin spool /\ sent[n] = 0 /\ n \notin flush[f].stale /\ n \in 1 .. written
    BY <2>1 DEF First, FlushInv, FlushesAreSole, AFlush
  <2>6. UNCHANGED untimely
    <3>1. untimely = FALSE BY DEF FlushInv, FlushTypeOK, FlushesAreSole
    <3>2. untimely' = (untimely \/ n \in flush[f].stale) \/ untimely' = untimely BY <2>1
    <3> QED BY <3>1, <3>2, <2>5
  <2>7. sent' \in [Notice -> Nat] BY <2>1 DEF FlushInv, FlushTypeOK
  <2>8. \A m \in Notice : sent'[m] = (IF m = n THEN sent'[n] ELSE sent[m]) /\ sent'[n] \in {0, 1}
    BY <2>1, <2>5 DEF FlushInv, FlushTypeOK
  <2>9. \A m \in Notice : sent'[m] <= 1 /\ (m \in spool' \/ m > written => sent'[m] = 0)
    BY <2>3, <2>5, <2>8 DEF FlushInv, FlushesAreSole, FlushTypeOK
  <2>10. \A m \in next.ready : m \in Notice
    BY <2>4, NoticeBounds DEF FlushInv, FlushTypeOK, AFlush, Notice, NoticeBounds
  <2>11. \A m \in next.ready : m \notin spool' /\ sent'[m] = 0 /\ m \notin next.stale
    BY <2>3, <2>4, <2>8, <2>10 DEF FlushInv, FlushesAreSole
  <2> HIDE DEF next
  <2> QED BY <2>2, <2>3, <2>4, <2>6, <2>7, <2>9, <2>11, FlushMoves
<1>6. CASE EndFlush(f) BY <1>6, FlushEnds DEF EndFlush
<1> QED BY <1>1, <1>2, <1>3, <1>4, <1>5, <1>6 DEF FlushStep

LEMMA FlushInvIsInductive == FlushInv /\ [Next]_vars => FlushInv'
<1> SUFFICES ASSUME FlushInv, [Next]_vars PROVE FlushInv' OBVIOUS
<1>1. CASE \/ StartStep \/ Boot \/ (\E s \in Signal : StopSignal(s) \/ StopReads(s) \/ StopStamps(s)) \/ Bind \/ WindowPasses
           \/ (\E n \in Perishable : Expire(n)) \/ UNCHANGED vars
  <2>1. UNCHANGED <<written, spool, sent, untimely, flush, flushing>> /\ expired' \subseteq Perishable
    BY <1>1 DEF StartStep, Boot, ReadMarker, WriteMarker, Announced, StartFlushed, StopSignal, StopReads, StopStamps,
       Bind, WindowPasses, Expire, FlushInv, FlushTypeOK, vars, process, disk, flushes, accounts, outside
  <2> QED BY <2>1, OthersKeepFlushInv
<1>2. CASE WriteNotice BY <1>2, WriteKeepsFlushInv
<1>3. CASE (\E s \in Signal : Exit(s)) \/ Kill BY <1>3, EndKeepsFlushInv DEF Exit, Kill
<1> QED BY <1>1, <1>2, <1>3, FlushKeepsFlushInv DEF Next, StopStep

(* NoticesAreSentOnceAndInTime of AdapterNotices, for any number of notices and   *)
(* timer callbacks: the guard of flushNotices makes the one flush under way the   *)
(* only one that takes notices out of the spool, and a notice is taken out before *)
(* it is sent.                                                                    *)
THEOREM NoticesAreSentOnce == Spec => []NoticesAreSentOnceAndInTime
<1>1. StartTypeOK /\ FlushInv => NoticesAreSentOnceAndInTime
  BY DEF FlushInv, FlushesAreSole, NoticesAreSentOnceAndInTime, TypeOK
<1>2. Spec => []StartTypeOK BY StartTypeInitially, StartTypeIsInductive, PTL DEF Spec
<1>3. Spec => []FlushInv BY FlushInvInitially, FlushInvIsInductive, PTL DEF Spec
<1> QED BY <1>1, <1>2, <1>3, PTL

-----------------------------------------------------------------------------
(* The death the next start will find. *)
Unaccounted == IF ~own /\ marker.exists /\ ~marker.clean THEN 1 ELSE 0

Undisturbed == ~early /\ faults = 0

Stamp(m) == [m EXCEPT !.clean = TRUE]

(* The marker is the running process's from its write on, a copy of it is out of   *)
(* date at most in the stamp it is about to get, and it dates the last announcement. *)
MarkerIsCurrent ==
  /\ own <=> start \notin {"down", "reading", "writing"}
  /\ own => marker.exists
  /\ start \in {"reading", "writing"} =>
       (\A s \in Signal : stop[s] = "none") /\ marker.announced <= now /\ now <= window
  /\ start = "writing" => startRead = marker
  /\ \A s \in Signal : stop[s] = "stamping" => Stamp(stopRead[s]) = Stamp(marker)
  /\ marker.announced <= window /\ \A w \in told : w <= marker.announced

Counted == died = reported + standing + marker.suppressed + unsent + Unaccounted /\ ~twice

DeathInv == StartTypeOK /\ (Undisturbed => MarkerIsCurrent /\ Counted)

LEMMA DeathInvInitially == Init => DeathInv
<1> SUFFICES ASSUME Init PROVE MarkerIsCurrent /\ Counted BY StartTypeInitially DEF DeathInv
<1> QED BY DEF Init, MarkerIsCurrent, Counted, Unaccounted, NoMarker, Never

(* A step that neither finds nor causes a fault. *)
LEMMA FaultsOnlyGrow ==
  ASSUME StartTypeOK, [Next]_vars, Undisturbed'
  PROVE  Undisturbed /\ ~Fault
<1> USE DEF process, disk, flushes, accounts, outside
<1>1. early => early'
  BY Zenon DEF Next, vars, Boot, StartStep, ReadMarker, WriteMarker, Announced, StartFlushed, StopSignal, StopStep,
     StopReads, StopStamps, Exit, Kill, End, FlushStep, BeginFlush, ListSpool, ReadNotice, RemoveNotice, SendNotice,
     EndFlush, WriteNotice, Bind, Expire, WindowPasses
<1>2. faults' = faults \/ faults' = faults + 1
  BY Zenon DEF Next, vars, Boot, StartStep, ReadMarker, WriteMarker, Announced, StartFlushed, StopSignal, StopStep,
     StopReads, StopStamps, Exit, Kill, End, FlushStep, BeginFlush, ListSpool, ReadNotice, RemoveNotice, SendNotice,
     EndFlush, WriteNotice, Bind, Expire, WindowPasses, Fault, NoFault
<1>3. faults \in Nat BY DEF StartTypeOK
<1> QED BY <1>1, <1>2, <1>3 DEF Undisturbed, Fault

(* The steps that leave the marker, its copies and the accounts alone. *)
LEMMA OthersKeepDeathInv ==
  ASSUME StartTypeOK, StartTypeOK', MarkerIsCurrent, Counted,
         UNCHANGED <<marker, startRead, stopRead, now, own, died, reported, standing, unsent, told, twice>>,
         window' = window \/ window' = window + 1,
         start' = start \/ (own /\ start' \in {"announcing", "flush", "flushing", "running"}),
         \A s \in Signal : stop'[s] = stop[s]
                            \/ (stop'[s] = "reading" /\ start \notin {"reading", "writing"})
  PROVE  MarkerIsCurrent' /\ Counted'
<1>1. UNCHANGED Unaccounted BY DEF Unaccounted
<1>2. Counted' BY <1>1 DEF Counted
<1>3. window' >= window /\ window' \in Nat /\ window \in Nat BY NoticeBounds DEF StartTypeOK
<1>4. marker.announced \in Nat /\ now \in Nat BY DEF StartTypeOK, Markers
<1>5. start' = start \/ start \notin {"down", "reading", "writing"} BY DEF MarkerIsCurrent
<1>6. start' \in {"reading", "writing"} =>
        (\A s \in Signal : stop'[s] = "none") /\ marker'.announced <= now' /\ now' <= window'
  BY <1>3, <1>4 DEF MarkerIsCurrent, StartTypeOK
<1>7. \A s \in Signal : stop'[s] = "stamping" => Stamp(stopRead'[s]) = Stamp(marker')
  BY DEF MarkerIsCurrent
<1>8. marker'.announced <= window' /\ \A w \in told' : w <= marker'.announced
  BY <1>3, <1>4 DEF MarkerIsCurrent
<1>9. (own' <=> start' \notin {"down", "reading", "writing"}) /\ (own' => marker'.exists)
  BY DEF MarkerIsCurrent
<1>10. start' = "writing" => startRead' = marker' BY <1>5 DEF MarkerIsCurrent
<1> QED BY <1>2, <1>6, <1>7, <1>8, <1>9, <1>10 DEF MarkerIsCurrent

LEMMA WriteMarkerCounts ==
  ASSUME StartTypeOK, StartTypeOK', MarkerIsCurrent, Counted, WriteMarker, ~Fault
  PROVE  MarkerIsCurrent' /\ Counted'
<1> DEFINE new == [exists |-> TRUE, clean |-> FALSE, suppressed |-> NextSuppressed,
                   announced |-> IF Announce THEN now ELSE startRead.announced]
<1>1. /\ marker' = new /\ own' = TRUE /\ start' \in {"announcing", "flush"}
      /\ told' = told \cup {w \in {now} : Announce} /\ twice' = (twice \/ (Announce /\ now \in told))
      /\ UNCHANGED <<stop, stopRead, died, reported, window>>
      /\ \/ standing' = Standing /\ unsent' = unsent
         \/ standing' = standing /\ unsent' = unsent + Standing
  <2>1. /\ marker' = new /\ own' = TRUE
        /\ told' = told \cup {w \in {now} : Announce} /\ twice' = (twice \/ (Announce /\ now \in told))
    BY Zenon DEF WriteMarker
  <2>2. /\ \/ start' = "announcing" /\ standing' = Standing /\ unsent' = unsent
           \/ start' = "flush" /\ standing' = standing /\ unsent' = unsent + Standing
    BY Zenon DEF WriteMarker
  <2>3. UNCHANGED <<stop, stopRead, died, reported, window>>
    BY Zenon DEF WriteMarker, outside
  <2> HIDE DEF new
  <2> QED BY <2>1, <2>2, <2>3, Zenon
<1>2. /\ start = "writing" /\ startRead = marker /\ ~own /\ (\A s \in Signal : stop[s] = "none")
      /\ marker.announced <= now /\ now <= window /\ standing = 0
  BY DEF WriteMarker, MarkerIsCurrent, StartTypeOK
<1>3. /\ new.exists = TRUE /\ new.clean = FALSE /\ new.suppressed = NextSuppressed
      /\ new.announced = IF Announce THEN now ELSE startRead.announced
  OBVIOUS
<1> HIDE DEF new
<1>4. marker.suppressed \in Nat /\ marker.announced \in Nat /\ died \in Nat /\ reported \in Nat /\ now \in Nat
      /\ unsent \in Nat /\ window \in Nat /\ told \subseteq Nat
  BY DEF StartTypeOK, Markers
<1>5. Unaccounted' = 0 BY <1>1 DEF Unaccounted
<1>6. marker.suppressed + Unaccounted = Standing + NextSuppressed
  BY <1>2, <1>4 DEF Unaccounted, NextSuppressed, Standing, Announce, Unexpected
<1>7. NextSuppressed \in Nat /\ Standing \in Nat /\ Unaccounted \in Nat
  BY <1>2, <1>4 DEF NextSuppressed, Standing, Unaccounted
<1>8. died' = reported' + standing' + marker'.suppressed + unsent' + Unaccounted'
  BY <1>1, <1>2, <1>3, <1>4, <1>5, <1>6, <1>7 DEF Counted
<1>9. ~twice'
  <2>1. Announce => now \notin told
    BY <1>2, <1>4 DEF MarkerIsCurrent, Announce, Recent
  <2> QED BY <1>1, <2>1 DEF Counted
<1>10. marker'.announced <= window' /\ \A w \in told' : w <= marker'.announced
  BY <1>1, <1>2, <1>3, <1>4 DEF MarkerIsCurrent
<1>11. MarkerIsCurrent' BY <1>1, <1>2, <1>3, <1>10 DEF MarkerIsCurrent
<1> QED BY <1>8, <1>9, <1>11 DEF Counted

LEMMA StampIsStamped ==
  ASSUME NEW m \in Markers
  PROVE  /\ Stamp(m) \in Markers /\ Stamp(m).clean = TRUE /\ Stamp(m).exists = m.exists
         /\ Stamp(m).suppressed = m.suppressed /\ Stamp(m).announced = m.announced
         /\ Stamp(Stamp(m)) = Stamp(m)
BY DEF Markers, Stamp

LEMMA StampsCount ==
  ASSUME StartTypeOK, MarkerIsCurrent, Counted, NEW s \in Signal, StopStamps(s), ~Fault
  PROVE  MarkerIsCurrent' /\ Counted'
<1> USE DEF process, disk, flushes, accounts, outside
<1>1. stop[s] = "stamping" /\ Stamp(stopRead[s]) = Stamp(marker)
  BY DEF StopStamps, MarkerIsCurrent
<1>2. start \notin {"down", "reading", "writing"} /\ own
  BY <1>1 DEF MarkerIsCurrent, StartTypeOK
<1>3. /\ marker' = Stamp(marker) /\ stop' = [stop EXCEPT ![s] = "stopped"]
      /\ stopRead' = [stopRead EXCEPT ![s] = NoMarker]
      /\ UNCHANGED <<start, startRead, now, standing, own, died, reported, unsent, told, twice, window>>
  BY <1>1 DEF StopStamps, Stamp
<1>4. /\ marker'.clean = TRUE /\ marker'.exists = marker.exists /\ marker'.suppressed = marker.suppressed
      /\ marker'.announced = marker.announced /\ Stamp(marker') = Stamp(marker)
  BY <1>3, StampIsStamped DEF StartTypeOK
<1>5. Unaccounted = 0 /\ Unaccounted' = 0 BY <1>2, <1>3 DEF Unaccounted
<1>6. Counted' BY <1>3, <1>4, <1>5 DEF Counted
<1>7. \A t \in Signal : stop'[t] = "stamping" => Stamp(stopRead'[t]) = Stamp(marker')
  BY <1>3, <1>4 DEF MarkerIsCurrent, StartTypeOK
<1>8. MarkerIsCurrent' BY <1>2, <1>3, <1>4, <1>7 DEF MarkerIsCurrent
<1> QED BY <1>6, <1>8

LEMMA DeathInvIsInductive == DeathInv /\ [Next]_vars => DeathInv'
<1> SUFFICES ASSUME DeathInv, [Next]_vars, Undisturbed' PROVE MarkerIsCurrent' /\ Counted'
  BY StartTypeIsInductive DEF DeathInv
<1>0. StartTypeOK /\ StartTypeOK' BY StartTypeIsInductive DEF DeathInv
<1> USE DEF process, disk, flushes, accounts, outside
<1>1. Undisturbed /\ ~Fault BY <1>0, FaultsOnlyGrow
<1>2. MarkerIsCurrent /\ Counted BY <1>1 DEF DeathInv
<1>3. CASE Boot
  <2>1. UNCHANGED Unaccounted BY <1>3 DEF Boot, Unaccounted
  <2>2. Counted' BY <1>2, <1>3, <2>1 DEF Boot, Counted
  <2>3. \A s \in Signal : stop[s] = "none" BY <1>0, <1>3 DEF Boot, StartTypeOK
  <2>4. MarkerIsCurrent' BY <1>0, <1>2, <1>3, <2>3 DEF Boot, MarkerIsCurrent, StartTypeOK
  <2> QED BY <2>2, <2>4
<1>4. CASE ReadMarker
  <2>0. start = "reading" /\ start' = "writing" /\ startRead' = marker
        /\ UNCHANGED <<stop, now, standing, stopRead, timer, disk, accounts, window>>
    BY <1>1, <1>4 DEF ReadMarker
  <2>1. UNCHANGED Unaccounted BY <2>0 DEF Unaccounted
  <2>2. Counted' BY <1>2, <2>0, <2>1 DEF Counted
  <2>3. MarkerIsCurrent' BY <1>0, <1>2, <2>0 DEF MarkerIsCurrent, StartTypeOK
  <2> QED BY <2>2, <2>3
<1>5. CASE WriteMarker BY <1>0, <1>1, <1>2, <1>5, WriteMarkerCounts
<1>6. ASSUME NEW s \in Signal, StopReads(s) PROVE MarkerIsCurrent' /\ Counted'
  <2>0. /\ UNCHANGED <<start, startRead, now, standing, disk, accounts, window>>
        /\ stop[s] = "reading"
        /\ \/ stopRead' = [stopRead EXCEPT ![s] = marker] /\ stop' = [stop EXCEPT ![s] = "stamping"]
           \/ stopRead' = stopRead /\ stop' = [stop EXCEPT ![s] = "stopped"]
    BY <1>6 DEF StopReads
  <2>1. UNCHANGED Unaccounted BY <2>0 DEF Unaccounted
  <2>2. Counted' BY <1>2, <2>0, <2>1 DEF Counted
  <2>3. \A t \in Signal : stop'[t] = "stamping" => Stamp(stopRead'[t]) = Stamp(marker')
    BY <1>0, <1>2, <2>0 DEF MarkerIsCurrent, StartTypeOK
  <2>4. start \notin {"reading", "writing"} BY <1>2, <2>0 DEF MarkerIsCurrent
  <2>5. MarkerIsCurrent' BY <1>2, <2>0, <2>3, <2>4 DEF MarkerIsCurrent
  <2> QED BY <2>2, <2>5
<1>7. ASSUME NEW s \in Signal, StopStamps(s) PROVE MarkerIsCurrent' /\ Counted'
  BY <1>0, <1>1, <1>2, <1>7, StampsCount
<1>8. CASE End
  <2>1. /\ start' = "down" /\ stop' = [s \in Signal |-> "none"] /\ own' = FALSE
        /\ standing' = 0 /\ unsent' = unsent + standing
        /\ UNCHANGED <<marker, window, reported, told, twice>>
        /\ died' = died + (IF own /\ ~marker.clean THEN 1 ELSE 0)
    BY <1>8 DEF End
  <2>2. died' = reported' + standing' + marker'.suppressed + unsent' + Unaccounted'
    <3>1. /\ died \in Nat /\ reported \in Nat /\ unsent \in Nat /\ standing \in Nat /\ marker.suppressed \in Nat
      BY <1>0 DEF StartTypeOK, Markers
    <3> QED BY <1>2, <2>1, <3>1 DEF Counted, MarkerIsCurrent, Unaccounted
  <2>3. Counted' BY <1>2, <2>1, <2>2 DEF Counted
  <2>4. MarkerIsCurrent' BY <1>2, <2>1 DEF MarkerIsCurrent
  <2> QED BY <2>3, <2>4
<1>9. CASE Announced
  <2>1. /\ start = "announcing" /\ start' = "flush" /\ standing' = 0
        /\ UNCHANGED <<stop, startRead, now, stopRead, marker, own, died, told, twice, window>>
        /\ \/ reported' = reported + standing /\ unsent' = unsent
           \/ unsent' = unsent + standing /\ reported' = reported
    BY <1>9 DEF Announced
  <2>2. /\ died \in Nat /\ reported \in Nat /\ unsent \in Nat /\ standing \in Nat /\ marker.suppressed \in Nat
    BY <1>0 DEF StartTypeOK, Markers
  <2>3. Unaccounted' = Unaccounted /\ Unaccounted \in Nat BY <2>1 DEF Unaccounted
  <2>4. Counted' BY <1>2, <2>1, <2>2, <2>3 DEF Counted
  <2>5. MarkerIsCurrent' BY <1>2, <2>1 DEF MarkerIsCurrent
  <2> QED BY <2>4, <2>5
<1>10. ASSUME NEW s \in Signal, StopSignal(s) PROVE MarkerIsCurrent' /\ Counted'
  <2>1. /\ stop' = [stop EXCEPT ![s] = "reading"]
        /\ UNCHANGED <<start, startRead, now, standing, stopRead, marker, own, died, reported, unsent, told, twice, window>>
    BY <1>10 DEF StopSignal
  <2>2. start \notin {"reading", "writing"} BY <1>10 DEF StopSignal, Undisturbed
  <2>3. \A t \in Signal : stop'[t] = stop[t] \/ (stop'[t] = "reading" /\ start \notin {"reading", "writing"})
    BY <1>0, <2>1, <2>2 DEF StartTypeOK
  <2> QED BY <1>0, <1>2, <2>1, <2>3, OthersKeepDeathInv
<1>11. CASE \/ StartFlushed \/ Bind \/ WriteNotice \/ WindowPasses
            \/ (\E n \in Perishable : Expire(n)) \/ (\E f \in Flusher : FlushStep(f)) \/ UNCHANGED vars
  <2>1. /\ UNCHANGED <<stop, marker, startRead, stopRead, now, own, died, reported, standing, unsent, told, twice>>
        /\ window' = window \/ window' = window + 1
    BY <1>11, Zenon DEF StartFlushed, Bind, WriteNotice, WindowPasses, Expire, vars,
       FlushStep, BeginFlush, ListSpool, ReadNotice, RemoveNotice, SendNotice, EndFlush
  <2>2. start' = start \/ (start' \in {"flush", "running", "flushing"} /\ start \notin {"down", "reading", "writing"})
    BY <1>11 DEF StartFlushed, Bind, WriteNotice, WindowPasses, Expire, vars,
       FlushStep, BeginFlush, ListSpool, ReadNotice, RemoveNotice, SendNotice, EndFlush
  <2>3. start' = start \/ (own /\ start' \in {"announcing", "flush", "flushing", "running"})
    BY <1>2, <2>2 DEF MarkerIsCurrent
  <2> QED BY <1>0, <1>2, <2>1, <2>3, OthersKeepDeathInv
<1> QED BY <1>3, <1>4, <1>5, <1>6, <1>7, <1>8, <1>9, <1>10, <1>11
        DEF Next, StartStep, StopStep, Kill, Exit, vars

(* DeathsAreAccounted of AdapterNotices, over any sequence of deaths, planned      *)
(* stops, signals and windows: the marker is the only account of a death until an  *)
(* announcement is decided, and while no stop signal comes early and every file     *)
(* operation succeeds, nobody writes it from a copy that is out of date.            *)
THEOREM DeathsStayAccounted == Spec => []DeathsAreAccounted
<1>1. DeathInv => DeathsAreAccounted
  <2> SUFFICES ASSUME DeathInv, own, Undisturbed PROVE Accounted /\ ~twice
    BY DEF DeathsAreAccounted, Undisturbed
  <2>1. Unaccounted = 0 /\ Counted BY DEF DeathInv, Unaccounted
  <2>2. /\ died \in Nat /\ reported \in Nat /\ unsent \in Nat /\ standing \in Nat /\ marker.suppressed \in Nat
    BY DEF DeathInv, StartTypeOK, Markers
  <2> QED BY <2>1, <2>2 DEF Counted, Accounted
<1> QED BY <1>1, DeathInvInitially, DeathInvIsInductive, PTL DEF Spec
=============================================================================
