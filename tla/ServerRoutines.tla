--------------------------- MODULE ServerRoutines ---------------------------
(***************************************************************************)
(* The long-running routines of the emulator server (server/emulator.go): *)
(* the storage routine, whose Badger variant runs a value-log GC loop on a *)
(* ticker until Stop signals it over a buffered done channel, and the REST *)
(* server routine, which listens and serves until Stop shuts it down.      *)
(* Start runs on a goroutine of its own; Stop is called by the server's    *)
(* shutdown path, possibly more than once.                                 *)
(***************************************************************************)
EXTENDS Naturals, FiniteSets

CONSTANTS
    Kinds,        \* storage backends the build may be configured with
    GCResults,    \* outcomes of store.RunValueLogGC: subset of {"ok","err"}
    Stoppers,     \* callers of BadgerStorage.Stop (model values)
    MaxTicks      \* bound on the ticker's firings

ASSUME GCResults \subseteq {"ok", "err"} /\ GCResults # {}
ASSUME Kinds \subseteq {"badger", "memory", "redis", "sqlite"}

\* make(chan bool, 1) in NewBadgerStorage.
DoneCap == 1

VARIABLES
    kind,     \* which Storage the server was built with (fixed)
    spc,      \* the storage Start goroutine: "loop" or "returned"
    gcErr,    \* Start returned the wrapped RunValueLogGC error
    closed,   \* store.Close() has been called
    done,     \* number of values buffered in s.done
    tick,     \* a tick is buffered in s.ticker.C (capacity 1)
    ticks,    \* ticks fired so far (bounded by MaxTicks)
    stops,    \* stops[s]: "idle", "sending" (blocked on s.done <- true), "returned"
    rpc,      \* the REST Start goroutine: "start", "serving", "returned"
    listener, \* r.listener # nil
    shut      \* r.server.Shutdown has been called

vars == <<kind, spc, gcErr, closed, done, tick, ticks, stops, rpc, listener, shut>>

TypeOK ==
    /\ kind \in Kinds
    /\ spc \in {"loop", "returned"}
    /\ gcErr \in BOOLEAN /\ closed \in BOOLEAN
    /\ done \in 0..DoneCap
    /\ tick \in 0..1 /\ ticks \in 0..MaxTicks
    /\ stops \in [Stoppers -> {"idle", "sending", "returned"}]
    /\ rpc \in {"start", "serving", "returned"}
    /\ listener \in BOOLEAN /\ shut \in BOOLEAN

\* NewBadgerStorage (or the constructor of another backend): an open store,
\* a fresh ticker and an empty done channel; Start is running its loop.
InitStorage ==
    /\ kind \in Kinds
    /\ spc = "loop" /\ gcErr = FALSE /\ closed = FALSE
    /\ done = 0 /\ tick = 0 /\ ticks = 0
    /\ stops = [s \in Stoppers |-> "idle"]

\* NewRestServer leaves the listener nil; the server may call Listen before
\* starting its routines, to report a busy port early.
InitRest ==
    /\ rpc = "start" /\ listener \in BOOLEAN /\ shut = FALSE

Init == InitStorage /\ InitRest

StorageVars == <<kind, spc, gcErr, closed, done, tick, ticks, stops>>
RestVars == <<rpc, listener, shut>>

----------------------------------------------------------------------------
(* Storage routine.                                                        *)

\* Redis, Memory and Sqlite storage: Start returns nil at once.
StartNoop ==
    /\ kind # "badger" /\ spc = "loop"
    /\ spc' = "returned"
    /\ UNCHANGED <<kind, gcErr, closed, done, tick, ticks, stops>> /\ UNCHANGED RestVars

\* Mutant: every tick is queued, as if the ticker channel were unbounded.
TickQueued ==
    /\ kind = "badger" /\ ticks < MaxTicks
    /\ tick' = tick + 1 /\ ticks' = ticks + 1
    /\ UNCHANGED <<kind, spc, gcErr, closed, done, stops>> /\ UNCHANGED RestVars

\* time.Ticker delivers into a one-slot channel and drops ticks while it is
\* full. The ticker is never stopped, so it keeps firing after Start returns.
Tick ==
    /\ kind = "badger" /\ tick = 0 /\ ticks < MaxTicks
    /\ tick' = 1 /\ ticks' = ticks + 1
    /\ UNCHANGED <<kind, spc, gcErr, closed, done, stops>> /\ UNCHANGED RestVars

\* select case <-s.ticker.C: run the GC; an error ends Start without Close.
GCTick ==
    /\ kind = "badger" /\ spc = "loop" /\ tick = 1
    /\ tick' = 0
    /\ \E r \in GCResults :
          IF r = "err" THEN spc' = "returned" /\ gcErr' = TRUE
                       ELSE UNCHANGED <<spc, gcErr>>
    /\ UNCHANGED <<kind, closed, done, ticks, stops>> /\ UNCHANGED RestVars

\* Mutant of the done case: the store is closed but the loop goes on.
DoneRecvNoReturn ==
    /\ kind = "badger" /\ spc = "loop" /\ done > 0
    /\ done' = done - 1 /\ closed' = TRUE
    /\ UNCHANGED <<kind, spc, gcErr, tick, ticks, stops>> /\ UNCHANGED RestVars

\* select case <-s.done: return s.store.Close().
DoneRecv ==
    /\ kind = "badger" /\ spc = "loop" /\ done > 0
    /\ done' = done - 1 /\ closed' = TRUE /\ spc' = "returned"
    /\ UNCHANGED <<kind, gcErr, tick, ticks, stops>> /\ UNCHANGED RestVars

\* A caller enters Stop. For the stores without a loop Stop is empty.
StopCall(s) ==
    /\ stops[s] = "idle"
    /\ stops' = [stops EXCEPT ![s] = IF kind = "badger" THEN "sending" ELSE "returned"]
    /\ UNCHANGED <<kind, spc, gcErr, closed, done, tick, ticks>> /\ UNCHANGED RestVars

\* Mutant: an unbuffered done channel, so a send needs the loop to receive.
BadgerStopUnbuffered(s) ==
    /\ stops[s] = "sending" /\ done < DoneCap /\ spc = "loop"
    /\ done' = done + 1 /\ stops' = [stops EXCEPT ![s] = "returned"]
    /\ UNCHANGED <<kind, spc, gcErr, closed, tick, ticks>> /\ UNCHANGED RestVars

\* BadgerStorage.Stop: s.done <- true completes once the buffer has room.
BadgerStop(s) ==
    /\ stops[s] = "sending" /\ done < DoneCap
    /\ done' = done + 1 /\ stops' = [stops EXCEPT ![s] = "returned"]
    /\ UNCHANGED <<kind, spc, gcErr, closed, tick, ticks>> /\ UNCHANGED RestVars

----------------------------------------------------------------------------
(* REST server routine.                                                    *)

\* Start: open the listener if there is none; a failed Listen ends Start.
RestStart ==
    /\ rpc = "start"
    /\ IF listener
         THEN rpc' = "serving" /\ UNCHANGED listener
         ELSE \/ rpc' = "serving" /\ listener' = TRUE
              \/ rpc' = "returned" /\ UNCHANGED listener
    /\ UNCHANGED shut /\ UNCHANGED StorageVars

\* r.server.Serve returns ErrServerClosed once Shutdown has been called,
\* also when Shutdown came first; Start returns that error.
RestServe ==
    /\ rpc = "serving" /\ shut
    /\ rpc' = "returned"
    /\ UNCHANGED <<listener, shut>> /\ UNCHANGED StorageVars

\* Stop: r.server.Shutdown(context.Background()), its error discarded.
RestStop ==
    /\ ~shut
    /\ shut' = TRUE
    /\ UNCHANGED <<rpc, listener>> /\ UNCHANGED StorageVars

----------------------------------------------------------------------------
Next ==
    \/ StartNoop \/ Tick \/ GCTick \/ DoneRecv
    \/ \E s \in Stoppers : StopCall(s) \/ BadgerStop(s)
    \/ RestStart \/ RestServe \/ RestStop

\* Go's select picks uniformly among ready cases, so a pending done value is
\* received eventually: weak fairness on the goroutines' steps. A blocked
\* sender is queued FIFO on the channel: strong fairness on its send. Calls
\* to Stop are the callers' choice and get no fairness.
Spec ==
    /\ Init /\ [][Next]_vars
    /\ WF_vars(StartNoop) /\ WF_vars(Tick) /\ WF_vars(GCTick) /\ WF_vars(DoneRecv)
    /\ \A s \in Stoppers : SF_vars(BadgerStop(s))
    /\ WF_vars(RestStart) /\ WF_vars(RestServe)

----------------------------------------------------------------------------
\* Every call of BadgerStorage.Stop returns: the send on s.done never blocks
\* forever, also when Stop is called more than once.
StopReturns ==
    \A s \in Stoppers : stops[s] = "sending" ~> stops[s] = "returned"

\* Once both routines have been asked to stop, both Start calls return, so a
\* shutdown that waits for its routines finishes.
StartsReturnAfterStop ==
    (shut /\ \E s \in Stoppers : stops[s] # "idle") ~> (spc = "returned" /\ rpc = "returned")
============================================================================
