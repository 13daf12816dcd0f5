--------------------------- MODULE Subscriptions ----------------------------
(***************************************************************************)
(* The SubscriptionManager of one session and one task: which channels the *)
(* client wants (signalSubscriptionMap), which of them are being           *)
(* transferred (activeSignals), and what each frame of process data makes  *)
(* it print.  A subscription belongs to a (group, decimation, blocksize)   *)
(* set whose members share the time stamps and the decimation counter of   *)
(* their (group, decimation); blocksize 0 is an event subscription.        *)
(*                                                                         *)
(* The request list below is external here: for one session a signal is    *)
(* idle, requested or active, and a request may be answered at once when   *)
(* another session uses the signal.  Values are what a property needs to   *)
(* tell apart: an event channel shows its signal's value, a block channel  *)
(* the time at which it was sampled.                                       *)
(***************************************************************************)
EXTENDS Integers, Sequences, FiniteSets

CONSTANTS
    Source,         \* the signals of the task
    Channel,        \* channels
    SignalOf,       \* [Channel -> Source]: Channel::signal
    Group,          \* group numbers a client uses
    Reduction,      \* reduction= a client may send; 0 is corrected to 1
    Blocksize,      \* blocksize= a client may send; 0 is corrected to 1
    Rate,           \* samples per second of the task
    Value,          \* values of a signal, 0 among them
    SizeMod,        \* 2^64 in the code: where a size_t wraps around
    TimeMod         \* bound: the clock of the model wraps around here

ASSUME SubAssumption ==
    /\ SignalOf \in [Channel -> Source]
    /\ Group \subseteq Nat /\ Reduction \subseteq Nat /\ Blocksize \subseteq Nat
    /\ Rate \in Nat \ {0}
    /\ 0 \in Value
    /\ SizeMod \in Nat \ {0} /\ TimeMod \in Nat \ {0}

VARIABLES
    sub,            \* signalSubscriptionMap: [Key -> subscription or NoSub]
    active,         \* activeSignals: its sets and decimation counters
    signal,         \* the session's SessionTaskData: idle, requested, active
    quiet,          \* Session::quiet
    value,          \* the values in the last frame
    clock,          \* taskTime of the last frame
    sent            \* what the last frame made the manager print

subVars == <<sub, active, signal, quiet, value, clock, sent>>

-----------------------------------------------------------------------------
NoSub == [blocksize |-> -1]

Key == Channel \X Group

\* "0.1/sampleTime + 0.5" and "1.0/sampleTime/blocksize + 0.5", cast to unsigned
EventReduction == (Rate + 5) \div 10
BlockReduction(b) == (2 * Rate + b) \div (2 * b)

Max1(n) == IF n = 0 THEN 1 ELSE n

Blocksizes == {0} \cup {Max1(b) : b \in Blocksize \cup {1}}
Decimations == {1} \cup {Max1(r) : r \in Reduction}
                   \cup {BlockReduction(b) : b \in Blocksizes \ {0}}
SetId == Group \X Decimations \X Blocksizes

\* The constructor of Subscription.
NewSubscription(decimation, blocksize) ==
    [decimation |-> IF blocksize = 0 THEN 1 ELSE decimation,
     blocksize |-> blocksize,
     triggerStart |-> IF blocksize = 0 THEN decimation ELSE 0,
     trigger |-> 0,
     last |-> 0,                \* event: data_bptr, zeroed
     blocks |-> <<>>]           \* otherwise: data_bptr up to data_pptr

\* The set a subscription belongs to: activeSignals[group][decimation][blocksize]
SetOf(k, s) == <<k[2], s.decimation, s.blocksize>>

EmptySet == [subs |-> {}, time |-> <<>>]

NoneActive == [sets |-> [i \in SetId |-> EmptySet],
               counter |-> [gd \in Group \X Decimations |-> 0]]

\* remove(): empty sets go, and with the last set of a decimation its counter.
RemoveSub(a, k, s) ==
    LET id  == SetOf(k, s)
        old == a.sets[id].subs
        sets == [a.sets EXCEPT ![id] = IF old \subseteq {k} THEN EmptySet
                                       ELSE [@ EXCEPT !.subs = old \ {k}]]
        gone == old # {} /\ \A b \in Blocksizes :
                                sets[<<k[2], s.decimation, b>>].subs = {}
    IN  [sets |-> sets,
         counter |-> IF gone THEN [a.counter EXCEPT ![<<k[2], s.decimation>>] = 0]
                     ELSE a.counter]

\* newSignal(): every subscription of the signal is put into its set.
NewSignal(a, subs, sig) ==
    [sets |-> [i \in SetId |->
        [a.sets[i] EXCEPT !.subs = @ \cup {k \in Key : /\ subs[k] # NoSub
                                                       /\ SignalOf[k[1]] = sig
                                                       /\ SetOf(k, subs[k]) = i}]],
     counter |-> a.counter]

-----------------------------------------------------------------------------
SubInit ==
    /\ sub = [k \in Key |-> NoSub]
    /\ active = NoneActive
    /\ signal = [s \in Source |-> "idle"]
    /\ quiet = FALSE
    /\ value \in [Source -> {0}]
    /\ clock = 0
    /\ sent = {}

\* Mistake: the subscription that is replaced stays in its set.
SubscribeNoRemove(m, k, new, atOnce) ==
    LET sig  == SignalOf[k[1]]
        subs == [m.sub EXCEPT ![k] = new]
        now  == m.signal[sig] = "active" \/ (m.signal[sig] = "idle" /\ sig \in atOnce)
    IN  [sub |-> subs,
         active |-> IF now THEN NewSignal(m.active, subs, sig) ELSE m.active,
         signal |-> [m.signal EXCEPT ![sig] = IF now THEN "active" ELSE "requested"]]

\* subscribe(): replaces the subscription of the channel in the group.  Signals
\* in atOnce are transferred already, because another session uses them.
SubscribeChannel(m, k, new, atOnce) ==
    LET sig  == SignalOf[k[1]]
        subs == [m.sub EXCEPT ![k] = new]
        rest == IF m.sub[k] = NoSub THEN m.active ELSE RemoveSub(m.active, k, m.sub[k])
        now  == m.signal[sig] = "active" \/ (m.signal[sig] = "idle" /\ sig \in atOnce)
    IN  [sub |-> subs,
         active |-> IF now THEN NewSignal(rest, subs, sig) ELSE rest,
         signal |-> [m.signal EXCEPT ![sig] = IF now THEN "active" ELSE "requested"]]

\* unsubscribe(): the signal is given up with the last of its channels.
UnsubscribeChannel(m, k) ==
    IF m.sub[k] = NoSub THEN m ELSE
    LET subs == [m.sub EXCEPT ![k] = NoSub]
        used == \E j \in Key : subs[j] # NoSub /\ SignalOf[j[1]] = SignalOf[k[1]]
    IN  [sub |-> subs,
         active |-> RemoveSub(m.active, k, m.sub[k]),
         signal |-> IF used THEN m.signal
                    ELSE [m.signal EXCEPT ![SignalOf[k[1]]] = "idle"]]

Manager == [sub |-> sub, active |-> active, signal |-> signal]

Becomes(m) == /\ sub' = m.sub
              /\ active' = m.active
              /\ signal' = m.signal

\* sync(): blocks and time stamps of all active subscriptions start again.
Sync(m) ==
    [sub |-> [k \in Key |-> IF \E i \in SetId : k \in m.active.sets[i].subs
                            THEN [m.sub[k] EXCEPT !.blocks = <<>>] ELSE m.sub[k]],
     active |-> [sets |-> [i \in SetId |-> [m.active.sets[i] EXCEPT !.time = <<>>]],
                 counter |-> m.active.counter],
     signal |-> m.signal]

\* The reduction of an xsad command, where -1 stands for an attribute that is
\* not there.
ReductionOf(reduction, event, blocksize) ==
    IF reduction >= 0 THEN Max1(reduction)
    ELSE IF event THEN EventReduction
    ELSE BlockReduction(blocksize)

\* Session::xsad() up to the list of channels; mode says whether the command
\* carries sync or quiet.
Synced(mode) == IF mode = "sync" THEN Sync(Manager) ELSE Manager

\* The rest of it for one channel; attributes the command does not carry are
\* -1.  A list of channels amounts to as many commands, because the session
\* does nothing else between two of them.
Subscribed(m, channel, group, reduction, blocksize, event, atOnce) ==
    LET size == IF event THEN 0 ELSE Max1(IF blocksize < 0 THEN 1 ELSE blocksize)
        new  == NewSubscription(ReductionOf(reduction, event, size), size)
    IN  SubscribeChannel(m, <<channel, group>>, new, atOnce)

\* Session::xsad() without and with a channel
XsadNone(mode) ==
    /\ quiet' = (mode = "quiet")
    /\ Becomes(Synced(mode))
    /\ sent' = {}
    /\ UNCHANGED <<value, clock>>

Xsad(channel, group, reduction, blocksize, event, mode, atOnce) ==
    /\ quiet' = (mode = "quiet")
    /\ Becomes(Subscribed(Synced(mode), channel, group, reduction, blocksize, event,
                          atOnce))
    /\ sent' = {}
    /\ UNCHANGED <<value, clock>>

\* Session::xsod() with a channel; a list amounts to as many commands.
Xsod(channel, group) ==
    /\ Becomes(UnsubscribeChannel(Manager, <<channel, group>>))
    /\ sent' = {}
    /\ UNCHANGED <<quiet, value, clock>>

\* Session::xsod() without a list: clear()
XsodAll ==
    /\ sub' = [k \in Key |-> NoSub]
    /\ active' = NoneActive
    /\ signal' = [s \in Source |-> "idle"]
    /\ sent' = {}
    /\ UNCHANGED <<quiet, value, clock>>

\* task->rxPdo() announces a signal that is now transferred.
Announce(s) ==
    /\ signal[s] = "requested"
    /\ signal' = [signal EXCEPT ![s] = "active"]
    /\ active' = NewSignal(active, sub, s)
    /\ sent' = {}
    /\ UNCHANGED <<sub, quiet, value, clock>>

-----------------------------------------------------------------------------
(* rxPdo(): one frame                                                       *)

\* DecimationCounter::busy(): "if (!counter) counter = start; return --counter"
CountDown(counter, start) ==
    ((IF counter = 0 THEN start ELSE counter) + SizeMod - 1) % SizeMod

\* Mistake: the trigger is counted down only by new values.
EventTriggerStuck(s, v) ==
    IF s.trigger > 0 \/ v = s.last THEN s
    ELSE [s EXCEPT !.trigger = s.triggerStart, !.last = v]

\* newValue() of an event subscription; print() follows at once if it is new.
EventValue(s, v) ==
    LET t == IF s.trigger > 0 THEN s.trigger - 1 ELSE 0
    IN  IF t > 0 \/ v = s.last THEN [s EXCEPT !.trigger = t]
        ELSE [s EXCEPT !.trigger = s.triggerStart, !.last = v]

\* print(): "nblocks >= blocksize"
Complete(s) == Len(s.blocks) >= s.blocksize

\* One frame with values v.  Nothing happens to it when the session is quiet.
Frame(v) ==
    LET now   == (clock + 1) % TimeMod
        count == [gd \in Group \X Decimations |->
                    IF \E b \in Blocksizes : active.sets[<<gd[1], gd[2], b>>].subs # {}
                    THEN CountDown(active.counter[gd], gd[2]) ELSE 0]
        due   == {i \in SetId : active.sets[i].subs # {} /\ count[<<i[1], i[2]>>] = 0}
        time  == [i \in due |-> Append(active.sets[i].time, now)]
        full  == {i \in due : i[3] > 0 /\ Len(time[i]) = i[3]}
        taken == [k \in Key |->
                    IF \E i \in due : k \in active.sets[i].subs
                    THEN IF sub[k].blocksize = 0
                         THEN EventValue(sub[k], v[SignalOf[k[1]]])
                         ELSE [sub[k] EXCEPT !.blocks = Append(@, now)]
                    ELSE sub[k]]
        printed == {k \in Key : \E i \in full : k \in active.sets[i].subs}
    IN  /\ value' = v
        /\ clock' = now
        /\ IF quiet THEN UNCHANGED <<sub, active>> /\ sent' = {} ELSE
           /\ sub' = [k \in Key |-> IF k \in printed
                                    THEN [taken[k] EXCEPT !.blocks = <<>>] ELSE taken[k]]
           /\ active' = [sets |-> [i \in SetId |->
                            IF i \notin due \/ i[3] = 0 THEN active.sets[i]
                            ELSE [active.sets[i] EXCEPT
                                    !.time = IF i \in full THEN <<>> ELSE time[i]]],
                         counter |-> count]
           /\ sent' = {[key |-> k, time |-> time[SetOf(k, sub[k])],
                        data |-> taken[k].blocks] :
                          k \in {j \in printed : Complete(taken[j])}}
                 \cup {[key |-> k, time |-> <<now>>, data |-> <<taken[k].last>>] :
                          k \in {j \in Key : /\ sub[j].blocksize = 0
                                             /\ taken[j].last # sub[j].last}}
        /\ UNCHANGED <<signal, quiet>>

NextFrame == \E v \in [Source -> Value] : Frame(v)

SubNext ==
    \/ \E mode \in {"sync", "quiet", "plain"} :
           \/ XsadNone(mode)
           \/ \E c \in Channel, g \in Group, r \in Reduction \cup {-1},
                atOnce \in SUBSET {s \in Source : signal[s] = "idle"} :
                  \/ Xsad(c, g, r, -1, TRUE, mode, atOnce)
                  \/ \E b \in Blocksize \cup {-1} :
                         Xsad(c, g, r, b, FALSE, mode, atOnce)
    \/ \E c \in Channel, g \in Group : Xsod(c, g)
    \/ XsodAll
    \/ \E s \in Source : Announce(s)
    \/ NextFrame

SubSpec == SubInit /\ [][SubNext]_subVars

\* Frames keep coming from the real time task, and Session::run() reads them.
SubFairSpec == SubSpec /\ WF_subVars(NextFrame)

-----------------------------------------------------------------------------
(* Properties                                                               *)

IsActive(k) == \E i \in SetId : k \in active.sets[i].subs

Subscription ==
    [decimation : Decimations, blocksize : Blocksizes, triggerStart : Nat,
     trigger : Nat, last : Value, blocks : Seq(0..TimeMod - 1)]

\* Types of the manager's state.
SubTypeOK ==
    /\ sub \in [Key -> Subscription \cup {NoSub}]
    /\ active \in [sets : [SetId -> [subs : SUBSET Key, time : Seq(0..TimeMod - 1)]],
                    counter : [Group \X Decimations -> 0..SizeMod - 1]]
    /\ signal \in [Source -> {"idle", "requested", "active"}]
    /\ quiet \in BOOLEAN
    /\ value \in [Source -> Value]
    /\ clock \in 0..TimeMod - 1

\* activeSignals holds exactly the subscriptions whose signal is transferred,
\* each in the set of its own decimation and blocksize, and no pointer to one
\* that was deleted; a signal without subscriptions is given up (subscribe,
\* unsubscribe, newSignal, remove and clear).
ActiveExact ==
    /\ \A i \in SetId : active.sets[i].subs =
           {k \in Key : /\ sub[k] # NoSub
                        /\ signal[SignalOf[k[1]]] = "active"
                        /\ SetOf(k, sub[k]) = i}
    /\ \A s \in Source :
           signal[s] = "idle" <=> ~\E k \in Key : sub[k] # NoSub /\ SignalOf[k[1]] = s

\* No block outgrows its buffer although newValue() never looks at data_eptr: a
\* subscription has no more values than its set has time stamps, and both are
\* fewer than the blocksize between two frames, whenever it joined.  The values
\* are those of the last time stamps, and nothing is collected before the
\* signal is transferred.
BlocksFit ==
    /\ \A i \in SetId : i[3] > 0 => Len(active.sets[i].time) < i[3]
    /\ \A i \in SetId : \A k \in active.sets[i].subs :
           LET blocks == sub[k].blocks
               time   == active.sets[i].time
           IN  i[3] > 0 =>
                   /\ Len(blocks) <= Len(time)
                   /\ \A n \in 1..Len(blocks) :
                          blocks[n] = time[Len(time) - Len(blocks) + n]
    /\ \A k \in Key : sub[k] # NoSub /\ signal[SignalOf[k[1]]] # "active"
                        => sub[k].blocks = <<>>

\* In what a client gets, the n-th value of a block was sampled at the n-th time
\* stamp, and the block is complete: members of a set share the time stamps
\* although they join and leave it at any time (rxPdo, print).
BlocksAligned ==
    \A e \in sent : sub[e.key].blocksize > 0 =>
        e.data = e.time /\ Len(e.time) = sub[e.key].blocksize

\* What SubscriptionManager and Subscription keep is right, whenever channels join
\* and leave: the active sets, and the blocks that are filled for the client.
SubInv == SubTypeOK /\ ActiveExact /\ BlocksFit /\ BlocksAligned

\* A value an event channel keeps is reported, even when it was new while the
\* rate limit held it back (newValue: trigger).
EventReported ==
    \A k \in Key, v \in Value :
        LET Wanted == /\ sub[k].blocksize = 0
                      /\ IsActive(k)
                      /\ ~quiet
                      /\ value[SignalOf[k[1]]] = v
        IN  Wanted ~> (~Wanted \/ sub[k].last = v)
=============================================================================
