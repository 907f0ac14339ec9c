------------------------------ MODULE BoardLink ------------------------------
(***************************************************************************)
(* The serial driver of the board (board/sync_centaur.py): the discovery   *)
(* of a board that may be asleep, the polls for its piece events, blocking *)
(* requests, and the queue of callbacks that piece events end in.          *)
(*                                                                         *)
(* Four threads share it: the listener reads packets, the request          *)
(* processor sends queued commands one by one, the polling thread queues   *)
(* the two polls, and the discovery retry worker repeats the probe.  The   *)
(* board is external: it numbers the piece events it sees and holds them   *)
(* until it is asked for its changes.  Answers to a poll for keys, and     *)
(* answers that hold no event, say nothing here and are left off the line. *)
(***************************************************************************)
EXTENDS Integers, Sequences, SequencesExt

CONSTANTS
    MaxEvents,      \* bound: piece events in a run
    MaxRequests,    \* bound: requests for the state of the board
    MaxLosses,      \* bound: answers lost or garbled on the line
    Conditions      \* what else may happen:
                    \* "overlap": a poll is executed before it has been noted;
                    \* "race": an answer is read amid a retry of the discovery;
                    \* "late": a request times out with its answer under way;
                    \* "noise": answers that hold events are lost too;
                    \* "direct": requests through the queue of the polls

ASSUME BoundsAssumption ==
    MaxEvents \in Nat /\ MaxRequests \in Nat /\ MaxLosses \in Nat
ASSUME ConditionsAssumption ==
    Conditions \subseteq {"overlap", "race", "late", "noise", "direct"}

VARIABLES
    awake,      \* the board answers
    happened,   \* number of piece events on the board so far
    held,       \* those the board has not been asked for
    line,       \* answers on their way
    lost,       \* number of answers that were lost
    addr,       \* addr1 and addr2 hold the board's address
    ready,      \* discovery has succeeded
    retrier,    \* the retry worker: "wait", about to "probe", or "gone"
    mainQ,      \* _request_queue
    lowQ,       \* _low_priority_queue
    tracked,    \* _last_n_commands
    poller,     \* the polling thread: "off", about to queue or to note a poll
    waiter,     \* the processor waits for the state of the board
    asked,      \* number of requests made
    listening,  \* _piece_listener is registered
    callbacks,  \* _callback_queue
    dropped     \* history: events given up on purpose

boardVars == <<awake, happened, held>>
discoveryVars == <<addr, ready, retrier>>
queueVars == <<mainQ, lowQ, tracked, asked>>
listenerVars == <<listening, callbacks, dropped>>
linkVars == <<boardVars, line, lost, discoveryVars, queueVars, poller, waiter,
              listenerVars>>

Polls == {"keys", "changes"}    \* _special_commands
Events == 1..MaxEvents
Address == [type |-> "address", events |-> <<>>]
State == [type |-> "state", events |-> <<>>]
Changes(es) == [type |-> "changes", events |-> es]
Packets == [type: {"address", "state", "changes"}, events: Seq(Events)]

LinkTypeOK ==
    /\ awake \in BOOLEAN /\ happened \in 0..MaxEvents /\ held \in Seq(Events)
    /\ line \in Seq(Packets) /\ lost \in 0..MaxLosses
    /\ addr \in BOOLEAN /\ ready \in BOOLEAN /\ retrier \in {"wait", "probe", "gone"}
    /\ mainQ \in Seq(Polls \cup {"state"}) /\ lowQ \in Seq({"state"})
    /\ tracked \in Seq(Polls \cup {"state"}) /\ Len(tracked) <= 2
    /\ poller \in {"off", "keys", "note keys", "changes", "note changes"}
    /\ waiter \in BOOLEAN /\ asked \in 0..MaxRequests
    /\ listening \in BOOLEAN /\ callbacks \in Seq(Events) /\ dropped \subseteq Events

\* the first probe has been sent
LinkInit ==
    /\ awake \in BOOLEAN /\ happened = 0 /\ held = <<>>
    /\ line = (IF awake THEN <<Address>> ELSE <<>>) /\ lost = 0
    /\ addr = FALSE /\ ready = FALSE /\ retrier = "wait"
    /\ mainQ = <<>> /\ lowQ = <<>> /\ tracked = <<>> /\ asked = 0
    /\ poller = "off" /\ waiter = FALSE
    /\ listening = FALSE /\ callbacks = <<>> /\ dropped = {}

-----------------------------------------------------------------------------
\* The board (external): it wakes, sees pieces lifted and placed, and answers.

Wake ==
    /\ ~awake
    /\ awake' = TRUE
    /\ UNCHANGED <<happened, held, line, lost, discoveryVars, queueVars, poller,
                   waiter, listenerVars>>

PieceMoves ==
    /\ awake
    /\ happened < MaxEvents
    /\ happened' = happened + 1
    /\ held' = Append(held, happened')
    /\ UNCHANGED <<awake, line, lost, discoveryVars, queueVars, poller, waiter,
                   listenerVars>>

\* what the line carries after command cmd was written behind the answers there
Answered(there, cmd) ==
    CASE cmd = "address" /\ awake -> Append(there, Address)
      [] cmd = "state" /\ awake /\ addr -> Append(there, State)
      [] cmd = "changes" /\ awake /\ addr /\ held # <<>> -> Append(there, Changes(held))
      [] OTHER -> there

HeldAfter(cmd) == IF cmd = "changes" /\ awake /\ addr THEN <<>> ELSE held

-----------------------------------------------------------------------------
\* on_packet_complete, while the board is not ready and has been asked for its
\* address only.  The first one is stored and asked for again, the second one,
\* equal to it, makes the board ready: the events it holds are asked for and
\* polling begins.

Discover(there) ==
    IF ~addr
    THEN /\ addr' = TRUE
         /\ line' = Answered(there, "address")
         /\ UNCHANGED <<held, ready, poller>>
    ELSE /\ ready' = TRUE
         /\ poller' = "keys"
         /\ line' = Answered(there, "changes")
         /\ held' = HeldAfter("changes")
         /\ UNCHANGED addr

ReceiveBeforeReady ==
    /\ ~ready
    /\ line # <<>>
    /\ Discover(Tail(line))
    /\ UNCHANGED <<awake, happened, lost, retrier, queueVars, waiter, listenerVars>>

\* Afterwards a state goes to the request that waits for one, events go one by
\* one to the queue of callbacks if a listener is registered, and the rest is
\* ignored: a state nobody waits for, an address.
Receive ==
    /\ ready
    /\ line # <<>>
    /\ line' = Tail(line)
    /\ LET packet == Head(line) IN
         /\ waiter' = (waiter /\ packet # State)
         /\ IF listening
            THEN /\ callbacks' = callbacks \o packet.events
                 /\ UNCHANGED dropped
            ELSE /\ dropped' = dropped \cup {e \in Events: Contains(packet.events, e)}
                 /\ UNCHANGED callbacks
    /\ UNCHANGED <<boardVars, lost, discoveryVars, queueVars, poller, listening>>

\* An answer is lost: its bytes are missing, or its checksum is wrong, which
\* fails the request that waits for an answer of its type.
Lose(garbled) ==
    /\ line # <<>>
    /\ lost < MaxLosses
    /\ lost' = lost + 1
    /\ line' = Tail(line)
    /\ waiter' = (waiter /\ ~(garbled /\ Head(line) = State))
    /\ UNCHANGED <<boardVars, discoveryVars, queueVars, poller, listenerVars>>

Listen ==
    /\ ~listening
    /\ listening' = TRUE
    /\ UNCHANGED <<boardVars, line, lost, discoveryVars, queueVars, poller, waiter,
                   callbacks, dropped>>

-----------------------------------------------------------------------------
\* _discovery_retry_worker: after its interval it looks whether the board is
\* ready, and if not forgets half an address and probes again.

RetryLook ==
    /\ retrier = "wait"
    /\ retrier' = IF ready THEN "gone" ELSE "probe"
    /\ UNCHANGED <<boardVars, line, lost, addr, ready, queueVars, poller, waiter,
                   listenerVars>>

RetryProbe ==
    /\ retrier = "probe"
    /\ retrier' = "wait"
    /\ addr' = FALSE
    /\ line' = IF ready THEN line ELSE Answered(line, "address")
    /\ UNCHANGED <<boardVars, lost, ready, queueVars, poller, waiter, listenerVars>>

-----------------------------------------------------------------------------
\* sendCommand of a poll, by the polling thread: skipped while tracked,
\* otherwise queued and then noted in the deque of the last two commands.

NextPoll(c) == IF c = "keys" THEN "changes" ELSE "keys"

Noted(c) == LET all == Append(tracked, c)
            IN  IF Len(all) > 2 THEN Tail(all) ELSE all

PollSkip(c) ==
    /\ poller = c
    /\ Contains(tracked, c)
    /\ poller' = NextPoll(c)
    /\ UNCHANGED <<boardVars, line, lost, discoveryVars, queueVars, waiter,
                   listenerVars>>

PollPut(c) ==
    /\ poller = c
    /\ ~Contains(tracked, c)
    /\ mainQ' = Append(mainQ, c)
    /\ poller' = "note " \o c
    /\ UNCHANGED <<boardVars, line, lost, discoveryVars, lowQ, tracked, asked, waiter,
                   listenerVars>>

PollNote(c) ==
    /\ poller = "note " \o c
    /\ tracked' = Noted(c)
    /\ poller' = NextPoll(c)
    /\ UNCHANGED <<boardVars, line, lost, discoveryVars, mainQ, lowQ, asked, waiter,
                   listenerVars>>

\* request_response and request_response_low_priority, for the state, by threads
\* that have waited for the board (wait_ready)
Ask(low) ==
    /\ ready
    /\ asked < MaxRequests
    /\ asked' = asked + 1
    /\ IF low
       THEN lowQ' = Append(lowQ, "state") /\ UNCHANGED <<mainQ, tracked>>
       ELSE /\ mainQ' = Append(mainQ, "state")
            /\ tracked' = Noted("state")
            /\ UNCHANGED lowQ
    /\ UNCHANGED <<boardVars, line, lost, discoveryVars, poller, waiter, listenerVars>>

\* _request_processor: the next command is taken off its queue and off the
\* tracking, and sent; a request for the state then waits for its answer.
Untracked_Never(c) == tracked
Untracked(c) == IF c \in Polls THEN RemoveFirst(tracked, c) ELSE tracked

Execute ==
    /\ ~waiter
    /\ mainQ # <<>>
    /\ LET c == Head(mainQ) IN
         /\ tracked' = Untracked(c)
         /\ line' = Answered(line, c)
         /\ held' = HeldAfter(c)
         /\ waiter' = (c = "state")
    /\ mainQ' = Tail(mainQ)
    /\ UNCHANGED <<awake, happened, lost, discoveryVars, lowQ, asked, poller,
                   listenerVars>>

ExecuteLow ==
    /\ ~waiter
    /\ mainQ = <<>>
    /\ lowQ # <<>>
    /\ lowQ' = Tail(lowQ)
    /\ line' = Answered(line, "state")
    /\ waiter' = TRUE
    /\ UNCHANGED <<boardVars, lost, discoveryVars, mainQ, tracked, asked, poller,
                   listenerVars>>

Timeout ==
    /\ waiter
    /\ waiter' = FALSE
    /\ UNCHANGED <<boardVars, line, lost, discoveryVars, queueVars, poller,
                   listenerVars>>

-----------------------------------------------------------------------------
\* What the code does not forbid and a run excludes unless its Conditions name it.

\* the polling thread notes a poll before the processor has come to it
NotedFirst == "overlap" \in Conditions \/ poller # "note " \o Head(mainQ)
\* the interval of the discovery is longer than an answer takes to come in, and a
\* retry is not cut in two by one
Undisturbed == "race" \in Conditions \/ line = <<>>
NotProbing == "race" \in Conditions \/ retrier # "probe"
\* an answer that comes is in time
NoneUnderWay == "late" \in Conditions \/ ~Contains(line, State)
\* the line spares the answers that hold events
NoEventsInIt == "noise" \in Conditions \/ Head(line).type # "changes"

\* those who ask for the state use the queue of low priority
IsLowPriority(low) == "direct" \in Conditions \/ low

TimelyExecute == Execute /\ NotedFirst
TimelyRetry == RetryLook /\ Undisturbed
TimelyReceive == ReceiveBeforeReady /\ NotProbing
TimelyTimeout == Timeout /\ NoneUnderWay

LinkNext ==
    \/ Wake \/ PieceMoves
    \/ TimelyReceive \/ Receive \/ Listen
    \/ \E garbled \in BOOLEAN: Lose(garbled) /\ NoEventsInIt
    \/ TimelyRetry \/ RetryProbe
    \/ \E c \in Polls: PollSkip(c) \/ PollPut(c) \/ PollNote(c)
    \/ \E low \in BOOLEAN: Ask(low) /\ IsLowPriority(low)
    \/ TimelyExecute \/ ExecuteLow \/ TimelyTimeout

\* Each thread goes on as long as it can, and a board is woken at last.
LinkFairness ==
    /\ WF_linkVars(Wake) /\ WF_linkVars(Listen)
    /\ WF_linkVars(TimelyReceive) /\ WF_linkVars(Receive)
    /\ WF_linkVars(TimelyRetry) /\ WF_linkVars(RetryProbe)
    /\ \A c \in Polls: WF_linkVars(PollSkip(c) \/ PollPut(c) \/ PollNote(c))
    /\ WF_linkVars(TimelyExecute) /\ WF_linkVars(TimelyTimeout)
=============================================================================
