---------------------------- MODULE AdapterNotices ----------------------------
(***************************************************************************)
(* What the adapter tells about itself (surface/notices.js, spec 0005): the *)
(* run marker, by which a start finds that the run before it died, and the   *)
(* spool of notices that whoever restarts the adapter leaves to be sent.     *)
(*                                                                          *)
(* Four pieces of code overlap: the start (init), the flushes of the spool   *)
(* (the start's own and the timer's), and the handler of a stop signal,      *)
(* which is installed before the start begins.  A process may die at any     *)
(* await, a file operation or a send may fail, and a second stop signal has    *)
(* a handler of its own.                                                      *)
(*                                                                          *)
(* Time is abstract: `window` counts announcement windows that have passed,  *)
(* and a notice with an expiry expires at any moment.                        *)
(***************************************************************************)
EXTENDS Naturals

CONSTANTS
  MaxNotice,   \* bound: notices written
  Routed,      \* the notices that name a route; the others go to the owner
  Perishable,  \* the notices that have an expiry
  Tick,        \* timer callbacks that may overlap
  MaxSignals,  \* bound: stop signals a process gets, each with a handler of its own
  MaxTroubles, \* bound: runs of the adapter that end and file operations that fail
  MaxWindows   \* bound: announcement windows that pass

Notice == 1 .. MaxNotice   \* in the order of their file names
Flusher == {0} \cup Tick   \* 0 is the flush of the start
Signal == 1 .. MaxSignals  \* in the order they come

ASSUME NoticesAreNotices == Routed \subseteq Notice /\ Perishable \subseteq Notice /\ 0 \notin Tick
ASSUME NoticeBounds == MaxNotice \in Nat /\ MaxTroubles \in Nat /\ MaxWindows \in Nat /\ MaxWindows >= 1 /\ MaxSignals \in Nat

Never == 0       \* windows are numbered from 1
NoMarker == [clean |-> TRUE, announced |-> Never, suppressed |-> 0, exists |-> FALSE]

VARIABLES
  start,       \* the await init is on; "down" when there is no process
  stop,        \* [Signal -> the await its handler is on]
  marker,      \* last-run.json
  startRead,   \* the marker as start has read it
  now,         \* the window start was called in
  standing,    \* the deaths the announcement being sent stands for
  stopRead,    \* [Signal -> the marker as its markCleanStop has read it]
  owner,       \* an owner is bound (durable)
  spool,       \* the notice files
  written,     \* notices written so far
  expired,     \* notices past their expiry
  timer,       \* noticeTimer is set
  flushing,    \* flushingNotices
  flush,       \* [Flusher -> a flush of the spool]
  sent,        \* [Notice -> times it was sent]
  window,      \* the announcement window it is now
  (* bookkeeping *)
  own,         \* the marker on disk is the running process's
  untimely,    \* a notice was sent that had expired before its flush began
  died,        \* runs that ended with their marker unstamped
  reported,    \* of those, the ones an announcement that was sent stood for
  unsent,      \* and those of an announcement that was decided and never sent
  told,        \* windows in which an announcement was decided
  twice,       \* a second one was decided in such a window
  early,       \* a stop signal came before the start had written its marker
  ends, faults

process == <<start, stop, startRead, now, standing, stopRead, timer>>
disk == <<marker, owner, spool>>
flushes == <<flushing, flush, sent, untimely>>
accounts == <<own, died, reported, unsent, told, twice, early, ends>>
outside == <<written, expired, window>>
vars == <<process, disk, flushes, accounts, outside, faults>>

NoFlush == [at |-> "idle", names |-> {}, found |-> FALSE, ready |-> {}, stale |-> {}]

Init ==
  /\ start = "down" /\ stop = [s \in Signal |-> "none"]
  /\ marker = NoMarker /\ startRead = NoMarker /\ stopRead = [s \in Signal |-> NoMarker]
  /\ now = 1 /\ standing = 0 /\ timer = FALSE
  /\ owner \in BOOLEAN /\ spool = {} /\ written = 0 /\ expired = {}
  /\ flushing = FALSE /\ flush = [f \in Flusher |-> NoFlush]
  /\ sent = [n \in Notice |-> 0] /\ untimely = FALSE
  /\ window = 1 /\ own = FALSE
  /\ died = 0 /\ reported = 0 /\ unsent = 0 /\ told = {} /\ twice = FALSE /\ early = FALSE
  /\ ends = 0 /\ faults = 0

Up == start # "down"
MoreTrouble == ends + faults < MaxTroubles
Fault == MoreTrouble /\ faults' = faults + 1
NoFault == UNCHANGED faults

-----------------------------------------------------------------------------
(* announceRestart: RunMarker.start, then the announcement. *)
Boot ==
  /\ start = "down" /\ start' = "reading" /\ now' = window
  /\ UNCHANGED <<stop, startRead, standing, stopRead, timer, disk, flushes, accounts, outside, faults>>

(* A marker that cannot be read is no marker: the run before is not known to have *)
(* died, and its count is gone.                                                   *)
ReadMarker ==
  /\ start = "reading" /\ start' = "writing"
  /\ \/ startRead' = marker /\ NoFault
     \/ startRead' = NoMarker /\ Fault
  /\ UNCHANGED <<stop, now, standing, stopRead, timer, disk, flushes, accounts, outside>>

Unexpected == startRead.exists /\ ~startRead.clean
Recent == startRead.announced = now
Announce == Unexpected /\ ~Recent

(* nextSuppressed; the first form, for a mutant, does not count this death. *)
NextSuppressedUncounted == IF Announce THEN 0 ELSE startRead.suppressed
NextSuppressed ==
  IF Announce THEN 0 ELSE IF Unexpected THEN startRead.suppressed + 1 ELSE startRead.suppressed

(* The deaths an announcement is told to stand for: the last one and the count. *)
Standing == IF Announce THEN 1 + startRead.suppressed ELSE 0

(* The window is judged by the time start was called with.  The count is reset and *)
(* the window taken before anything is sent: without an owner there is nobody to   *)
(* tell, and the announcement is dropped with all it stands for.  A marker that    *)
(* cannot be written is done without.                                             *)
WriteMarker ==
  /\ start = "writing"
  /\ \/ /\ marker' = [exists |-> TRUE, clean |-> FALSE, suppressed |-> NextSuppressed,
                      announced |-> IF Announce THEN now ELSE startRead.announced]
        /\ own' = TRUE
        /\ IF Announce /\ owner
           THEN start' = "announcing" /\ standing' = Standing /\ UNCHANGED unsent
           ELSE start' = "flush" /\ unsent' = unsent + Standing /\ UNCHANGED standing
        /\ told' = told \cup {w \in {now} : Announce}
        /\ twice' = (twice \/ (Announce /\ now \in told))
        /\ NoFault
     \/ /\ Fault /\ start' = "flush"
        /\ UNCHANGED <<marker, own, standing, unsent, told, twice>>
  /\ startRead' = NoMarker /\ now' = 1
  /\ UNCHANGED <<stop, stopRead, timer, owner, spool, flushes, died, reported, early, ends, outside>>

(* The send is over; one that failed is logged, and not tried again. *)
Announced ==
  /\ start = "announcing" /\ start' = "flush" /\ standing' = 0
  /\ \/ reported' = reported + standing /\ UNCHANGED unsent
     \/ unsent' = unsent + standing /\ UNCHANGED reported
  /\ UNCHANGED <<stop, startRead, now, stopRead, timer, disk, flushes, own, died, told, twice, early, ends,
                 outside, faults>>

(* The start waits for its flush; then the timer, and the backlog and the polling *)
(* of TelegramIngress.                                                           *)
StartFlushed ==
  /\ start = "flushing" /\ flush[0].at = "idle"
  /\ start' = "running" /\ timer' = TRUE
  /\ UNCHANGED <<stop, startRead, now, standing, stopRead, disk, flushes, accounts, outside, faults>>

-----------------------------------------------------------------------------
(* flushNotices *)

(* The re-entrancy guard; the first form, for a mutant, lets every tick in. *)
NoGuard == TRUE
NotFlushing == ~flushing

BeginFlush(f) ==
  /\ flush[f].at = "idle" /\ NotFlushing
  /\ IF f = 0 THEN start = "flush" /\ start' = "flushing"
              ELSE timer /\ UNCHANGED start
  /\ flushing' = TRUE
  /\ flush' = [flush EXCEPT ![f] = [NoFlush EXCEPT !.at = "listing", !.stale = expired]]
  /\ UNCHANGED <<stop, startRead, now, standing, stopRead, timer, disk, sent, untimely, accounts, outside, faults>>

(* drain: the names, then for each the file is read and removed, and kept if it  *)
(* was there and had not expired when the drain began.                           *)
First(S, n) == n \in S /\ \A m \in S : n <= m

ListSpool(f) ==
  /\ flush[f].at = "listing"
  /\ flush' = [flush EXCEPT ![f].at = "reading", ![f].names = spool]
  /\ UNCHANGED <<process, disk, flushing, sent, untimely, accounts, outside, faults>>

ReadNotice(f) ==
  /\ flush[f].at = "reading"
  /\ \E n \in Notice :
       /\ First(flush[f].names, n)
       /\ flush' = [flush EXCEPT ![f].at = "removing", ![f].found = n \in spool]
  /\ UNCHANGED <<process, disk, flushing, sent, untimely, accounts, outside, faults>>

(* Mutant: a flush that fails does not reset the guard. *)
KeepGuard(f) == flush' = [flush EXCEPT ![f] = NoFlush] /\ UNCHANGED flushing

(* The finally of flushNotices. *)
Finally(f) == flush' = [flush EXCEPT ![f] = NoFlush] /\ flushing' = FALSE

(* A file that cannot be removed ends the flush: what it has taken out of the    *)
(* spool before is not sent any more.                                            *)
RemoveNotice(f) ==
  /\ flush[f].at = "removing"
  /\ \E n \in Notice :
       /\ First(flush[f].names, n)
       /\ \/ /\ spool' = spool \ {n} /\ NoFault /\ UNCHANGED flushing
             /\ flush' = [flush EXCEPT ![f].at = "reading", ![f].names = @ \ {n},
                            ![f].ready = @ \cup {m \in {n} : flush[f].found /\ m \notin flush[f].stale}]
          \/ Fault /\ UNCHANGED spool /\ Finally(f)
  /\ UNCHANGED <<process, marker, owner, sent, untimely, accounts, outside>>

(* Then they are sent, one after another; a notice with no target, or whose send *)
(* fails, is dropped.                                                            *)
SendNotice(f) ==
  /\ flush[f].at = "reading" /\ flush[f].names = {}
  /\ \E n \in Notice :
       /\ First(flush[f].ready, n)
       /\ flush' = [flush EXCEPT ![f].ready = @ \ {n}]
       /\ \/ /\ n \in Routed \/ owner
             /\ sent' = [sent EXCEPT ![n] = @ + 1]
             /\ untimely' = (untimely \/ n \in flush[f].stale)
          \/ UNCHANGED <<sent, untimely>>
  /\ UNCHANGED <<process, disk, flushing, accounts, outside, faults>>

EndFlush(f) ==
  /\ flush[f].at = "reading" /\ flush[f].names = {} /\ flush[f].ready = {}
  /\ Finally(f)
  /\ UNCHANGED <<process, disk, sent, untimely, accounts, outside, faults>>

FlushStep(f) == BeginFlush(f) \/ ListSpool(f) \/ ReadNotice(f) \/ RemoveNotice(f) \/ SendNotice(f) \/ EndFlush(f)

-----------------------------------------------------------------------------
(* The process ends: by a kill at any time, or when a stop handler is through.  *)
(* What it was about to announce is in no marker any more.                       *)
End ==
  /\ ends' = ends + 1
  /\ start' = "down" /\ stop' = [s \in Signal |-> "none"] /\ own' = FALSE
  /\ startRead' = NoMarker /\ stopRead' = [s \in Signal |-> NoMarker] /\ now' = 1 /\ timer' = FALSE
  /\ standing' = 0 /\ unsent' = unsent + standing
  /\ flushing' = FALSE /\ flush' = [f \in Flusher |-> NoFlush]
  /\ died' = died + (IF own /\ ~marker.clean THEN 1 ELSE 0)
  /\ UNCHANGED <<disk, sent, untimely, reported, told, twice, early, outside, faults>>

Kill == Up /\ MoreTrouble /\ End

(* A stop signal: its handler's stop clears the timer if it is set, then          *)
(* markCleanStop reads the marker and stamps it.  A second signal runs a handler  *)
(* of its own beside the first.                                                  *)
StopSignal(s) ==
  /\ Up /\ stop[s] = "none" /\ MoreTrouble
  /\ \A r \in 1 .. s - 1 : stop[r] # "none"
  /\ stop' = [stop EXCEPT ![s] = "reading"] /\ timer' = FALSE
  /\ early' = (early \/ start \in {"reading", "writing"})
  /\ UNCHANGED <<start, startRead, now, standing, stopRead, disk, flushes, own, died, reported, unsent, told, twice,
                 ends, outside, faults>>

(* A marker that is missing or cannot be read is not stamped. *)
StopReads(s) ==
  /\ stop[s] = "reading"
  /\ \/ /\ marker.exists /\ NoFault
        /\ stopRead' = [stopRead EXCEPT ![s] = marker]
        /\ stop' = [stop EXCEPT ![s] = "stamping"]
     \/ /\ (NoFault /\ ~marker.exists) \/ Fault
        /\ stop' = [stop EXCEPT ![s] = "stopped"]
        /\ UNCHANGED stopRead
  /\ UNCHANGED <<start, startRead, now, standing, timer, disk, flushes, accounts, outside>>

StopStamps(s) ==
  /\ stop[s] = "stamping"
  /\ stop' = [stop EXCEPT ![s] = "stopped"] /\ stopRead' = [stopRead EXCEPT ![s] = NoMarker]
  /\ \/ marker' = [stopRead[s] EXCEPT !.clean = TRUE] /\ NoFault
     \/ Fault /\ UNCHANGED marker
  /\ UNCHANGED <<start, startRead, now, standing, timer, owner, spool, flushes, accounts, outside>>

Exit(s) == stop[s] = "stopped" /\ End

-----------------------------------------------------------------------------
(* Outside: the deployer, the first private message, the clock. *)
WriteNotice ==
  /\ written < MaxNotice /\ written' = written + 1 /\ spool' = spool \cup {written'}
  /\ UNCHANGED <<process, marker, owner, flushes, accounts, expired, window, faults>>

Bind ==
  /\ start = "running" /\ ~owner /\ owner' = TRUE
  /\ UNCHANGED <<process, marker, spool, flushes, accounts, outside, faults>>

Expire(n) ==
  /\ n \in 1 .. written \ expired /\ expired' = expired \cup {n}
  /\ UNCHANGED <<process, disk, flushes, accounts, written, window, faults>>

WindowPasses ==
  /\ window < MaxWindows /\ window' = window + 1
  /\ UNCHANGED <<process, disk, flushes, accounts, written, expired, faults>>

StartStep == ReadMarker \/ WriteMarker \/ Announced \/ StartFlushed
StopStep == \E s \in Signal : StopReads(s) \/ StopStamps(s) \/ Exit(s)

Next ==
  \/ Boot \/ StartStep \/ (\E s \in Signal : StopSignal(s)) \/ StopStep \/ Kill
  \/ \E f \in Flusher : FlushStep(f)
  \/ WriteNotice \/ Bind \/ (\E n \in Perishable : Expire(n)) \/ WindowPasses

Spec == Init /\ [][Next]_vars

(* Every await ends, and the timer ticks. *)
FairSpec ==
  /\ Spec /\ WF_vars(StartStep) /\ WF_vars(StopStep)
  /\ \A f \in Flusher : WF_vars(FlushStep(f))

-----------------------------------------------------------------------------
Markers ==
  [exists : BOOLEAN, clean : BOOLEAN, announced : 0 .. MaxWindows, suppressed : Nat]

StartTypeOK ==
  /\ start \in {"down", "reading", "writing", "announcing", "flush", "flushing", "running"}
  /\ stop \in [Signal -> {"none", "reading", "stamping", "stopped"}]
  /\ start = "down" => (\A s \in Signal : stop[s] = "none") /\ ~own
  /\ start # "announcing" => standing = 0
  /\ marker \in Markers /\ startRead \in Markers /\ stopRead \in [Signal -> Markers]
  /\ now \in 1 .. MaxWindows /\ window \in 1 .. MaxWindows /\ told \subseteq 1 .. MaxWindows
  /\ owner \in BOOLEAN /\ timer \in BOOLEAN /\ own \in BOOLEAN /\ twice \in BOOLEAN /\ early \in BOOLEAN
  /\ died \in Nat /\ reported \in Nat /\ unsent \in Nat /\ standing \in Nat /\ ends \in Nat /\ faults \in Nat

AFlush ==
  [at : {"idle", "listing", "reading", "removing"}, found : BOOLEAN,
   names : SUBSET (1 .. written), ready : SUBSET (1 .. written), stale : SUBSET Perishable]

(* At most one flush is under way, and the guard says whether one is. *)
FlushTypeOK ==
  /\ written \in 0 .. MaxNotice /\ spool \subseteq 1 .. written /\ expired \subseteq Perishable
  /\ sent \in [Notice -> Nat] /\ untimely \in BOOLEAN
  /\ flush \in [Flusher -> AFlush]
  /\ flushing \in BOOLEAN /\ (flushing <=> \E f \in Flusher : flush[f].at # "idle")
  /\ \A f, g \in Flusher : flush[f].at # "idle" /\ flush[g].at # "idle" => f = g

TypeOK == StartTypeOK /\ FlushTypeOK

(* A notice is sent at most once, whatever process dies while it sends and      *)
(* however long a flush takes against the timer that starts the next, and never  *)
(* if it had expired before the flush began (drain, flushNotices).               *)
NoticesAreSentOnceAndInTime == TypeOK /\ ~untimely /\ \A n \in Notice : sent[n] <= 1

(* Every run that died is one an announcement was sent for, one the announcement *)
(* being sent stands for, in the count of the next one, or one whose              *)
(* announcement was decided and never sent; over any sequence of deaths, planned   *)
(* stops and windows, and no window has two announcements; unless a stop signal   *)
(* came before the start had written its marker, or a marker could not be written  *)
(* or read (RunMarker.start, announceRestart, markCleanStop).                     *)
Accounted == died = reported + standing + marker.suppressed + unsent
DeathsAreAccounted == own /\ ~early /\ faults = 0 => Accounted /\ ~twice

(* The same whatever comes when.  It fails: the stop handler may read the marker *)
(* before the start writes it, and write it back afterwards.                     *)
DeathsAreAlwaysAccounted == own /\ faults = 0 => Accounted /\ ~twice

(* "The next announcement that does go out reports how many restarts it stands    *)
(* for" (spec 0005): none is forgotten.  It fails: the marker's count is reset and  *)
(* its window taken before the send, which may fail or never be reached.          *)
NoDeathIsForgotten == own /\ ~early /\ faults = 0 => unsent = 0

(* While the timer is set no notice stays in the spool, whatever failed before    *)
(* (flushNotices).                                                               *)
SpoolIsServed == \A n \in Notice : n \in spool /\ timer ~> n \notin spool \/ ~timer
=============================================================================
