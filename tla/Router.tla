-------------------------------- MODULE Router --------------------------------
(***************************************************************************)
(* Tunnels: a node behind NAT keeps a stream open to a node that must be   *)
(* able to call it, announces on it the addresses it serves, and dials     *)
(* again when it breaks; the other node routes its calls down the stream.  *)
(* transport/tunnel.py.                                                    *)
(*                                                                         *)
(* One dialing node and one listening node.  A frame that was received is  *)
(* handled before the dialing node, which waits 0.1 s or longer, has       *)
(* opened another stream; frames under way are lost when a stream breaks.  *)
(***************************************************************************)
EXTENDS Integers, Sequences, FiniteSets

CONSTANTS
  Address,    \* what the dialing node serves, from some moment on
  Call,       \* calls the listening node makes, one each
  Timed,      \* the calls made with a timeout
  MaxBreaks,  \* bound on streams that break or that the far router closes
  MaxKeeps    \* bound on keep() calls (each but the last is released)

ASSUME RouterAssumption ==
  /\ Timed \subseteq Call
  /\ MaxBreaks \in Nat
  /\ MaxKeeps \in Nat \ {0}

Tunnel == 1 .. MaxBreaks + MaxKeeps
Keeper == 1 .. MaxKeeps
None == 0

VARIABLES
  services,   \* dialing node: addresses in _services
  serve,      \* serve(a): how far it is, and the addresses it announces
  keeper,     \* the keepers: where their thread is, their tunnel, their _stop
  kept,       \* the keeper in _keepers, or None
  stopped,    \* keepers whose stop() still has to close their tunnel
  dialed,     \* tunnels made so far
  acked,      \* tunnels whose HELLO was answered
  shut,       \* tunnels closed at the dialing end
  handling,   \* requests being served, with their tunnel
  far,        \* listening node: its end of each tunnel
  addresses,  \* what each tunnel announced
  routes,     \* _routes
  behind,     \* _behind_tunnel
  calls,      \* its calls
  broken,     \* streams that broke
  up,         \* frames from the dialing node, queued or under way
  down        \* frames to it

dialing == <<services, serve, keeper, kept, stopped, dialed, acked, shut, handling>>
listening == <<far, addresses, routes, behind, calls>>
routerVars == <<dialing, listening, broken, up, down>>

Hello(s) == [kind |-> "hello", addresses |-> s, call |-> "none"]
Request(c) == [kind |-> "request", addresses |-> {}, call |-> c]
Response(c) == [kind |-> "response", addresses |-> {}, call |-> c]
Error(c) == [kind |-> "error", addresses |-> {}, call |-> c]

RouterInit ==
  /\ services = {}
  /\ serve = [a \in Address |-> [at |-> "no", announces |-> {}]]
  /\ keeper = [k \in Keeper |-> [at |-> "new", tunnel |-> None, stop |-> FALSE]]
  /\ kept = None /\ stopped = {}
  /\ dialed = 0 /\ acked = {} /\ shut = {} /\ handling = {}
  /\ far = [t \in Tunnel |-> "none"]
  /\ addresses = [t \in Tunnel |-> {}]
  /\ routes = [a \in Address |-> None]
  /\ behind = {}
  /\ calls = [c \in Call |-> [at |-> "idle", to |-> "nobody", tunnel |-> None]]
  /\ broken = {}
  /\ up = [t \in Tunnel |-> <<>>]
  /\ down = [t \in Tunnel |-> <<>>]

Send(queues, t, frame) == [queues EXCEPT ![t] = Append(@, frame)]

-----------------------------------------------------------------------------
(* The dialing node: serve(). *)

Serve(a) ==
  /\ serve[a].at = "no"
  /\ services' = services \union {a}
  /\ serve' = [serve EXCEPT ![a] = [at |-> "added", announces |-> {}]]
  /\ UNCHANGED <<keeper, kept, stopped, dialed, acked, shut, handling, listening, broken, up, down>>

\* _announce: the addresses first, then the tunnel of the keeper.
ReadAddresses(a) ==
  /\ serve[a].at = "added"
  /\ serve' = [serve EXCEPT ![a] = [at |-> "read", announces |-> services]]
  /\ UNCHANGED <<services, keeper, kept, stopped, dialed, acked, shut, handling,
                 listening, broken, up, down>>

\* Mutant: only a tunnel that is ready hears of it.
AnnounceToReady(a) ==
  /\ serve[a].at = "read"
  /\ serve' = [serve EXCEPT ![a].at = "done"]
  /\ LET t == IF kept = None THEN None ELSE keeper[kept].tunnel
     IN  up' = IF t \in acked \ shut THEN Send(up, t, Hello(serve[a].announces)) ELSE up
  /\ UNCHANGED <<services, keeper, kept, stopped, dialed, acked, shut, handling,
                 listening, broken, down>>

Announce(a) ==
  /\ serve[a].at = "read"
  /\ serve' = [serve EXCEPT ![a].at = "done"]
  /\ LET t == IF kept = None THEN None ELSE keeper[kept].tunnel
     IN  up' = IF t # None /\ t \notin shut \union broken
               THEN Send(up, t, Hello(serve[a].announces)) ELSE up
  /\ UNCHANGED <<services, keeper, kept, stopped, dialed, acked, shut, handling,
                 listening, broken, down>>

-----------------------------------------------------------------------------
(* The dialing node: keep() and release(). *)

Keep ==
  /\ kept = None
  /\ \E k \in Keeper :
       /\ keeper[k].at = "new" /\ \A j \in 1 .. k - 1 : keeper[j].at # "new"
       /\ kept' = k
       /\ keeper' = [keeper EXCEPT ![k].at = "top"]
  /\ UNCHANGED <<services, serve, stopped, dialed, acked, shut, handling, listening, broken, up, down>>

\* stop(): the flag first, then the tunnel.
Release ==
  /\ kept # None
  /\ keeper' = [keeper EXCEPT ![kept].stop = TRUE]
  /\ stopped' = stopped \union {kept}
  /\ kept' = None
  /\ UNCHANGED <<services, serve, dialed, acked, shut, handling, listening, broken, up, down>>

StopCloses(k) ==
  /\ k \in stopped
  /\ stopped' = stopped \ {k}
  /\ shut' = shut \union ({keeper[k].tunnel} \ {None})
  /\ UNCHANGED <<services, serve, keeper, kept, dialed, acked, handling, listening, broken, up, down>>

-----------------------------------------------------------------------------
(* The dialing node: the thread of a keeper. *)

Goto(k, at) == keeper' = [keeper EXCEPT ![k].at = at]

KeeperTop(k) ==
  /\ keeper[k].at = "top"
  /\ Goto(k, IF keeper[k].stop THEN "ended" ELSE "dial")
  /\ UNCHANGED <<services, serve, kept, stopped, dialed, acked, shut, handling,
                 listening, broken, up, down>>

\* The channel is ready; the keeper has a tunnel from here on.
Dial(k) ==
  /\ keeper[k].at = "dial"
  /\ dialed' = dialed + 1
  /\ keeper' = [keeper EXCEPT ![k].at = "named", ![k].tunnel = dialed + 1]
  /\ UNCHANGED <<services, serve, kept, stopped, acked, shut, handling, listening, broken, up, down>>

SendHello(k) ==
  /\ keeper[k].at = "named"
  /\ LET t == keeper[k].tunnel
     IN  up' = IF t \in shut THEN up ELSE Send(up, t, Hello(services))
  /\ Goto(k, "hello")
  /\ UNCHANGED <<services, serve, kept, stopped, dialed, acked, shut, handling, listening, broken, down>>

OpenStream(k) ==
  /\ keeper[k].at = "hello"
  /\ far' = [far EXCEPT ![keeper[k].tunnel] = "open"]
  /\ Goto(k, "opened")
  /\ UNCHANGED <<services, serve, kept, stopped, dialed, acked, shut, handling,
                 addresses, routes, behind, calls, broken, up, down>>

\* Mutant: stop() alone is trusted to close the tunnel.
CheckNothing(k) ==
  /\ keeper[k].at = "opened"
  /\ Goto(k, "reading")
  /\ UNCHANGED <<services, serve, kept, stopped, dialed, acked, shut, handling,
                 listening, broken, up, down>>

CheckStop(k) ==
  /\ keeper[k].at = "opened"
  /\ shut' = IF keeper[k].stop THEN shut \union {keeper[k].tunnel} ELSE shut
  /\ Goto(k, "reading")
  /\ UNCHANGED <<services, serve, kept, stopped, dialed, acked, handling, listening, broken, up, down>>

\* The stream ends: it broke, this end was closed, or the far end was.
ReadEnds(k) ==
  LET t == keeper[k].tunnel
  IN  /\ keeper[k].at = "reading"
      /\ t \in broken \union shut \/ far[t] = "closed"
      /\ shut' = shut \union {t}
      /\ Goto(k, "top")
      /\ UNCHANGED <<services, serve, kept, stopped, dialed, acked, handling,
                     listening, broken, up, down>>

ReadFrame(k) ==
  LET t == keeper[k].tunnel
  IN  /\ keeper[k].at = "reading" /\ t \notin shut
      /\ down[t] # <<>>
      /\ down' = [down EXCEPT ![t] = Tail(@)]
      /\ LET frame == Head(down[t])
         IN  IF frame.kind = "hello"
             THEN acked' = acked \union {t} /\ UNCHANGED handling
             ELSE handling' = handling \union {<<t, frame.call>>} /\ UNCHANGED acked
      /\ UNCHANGED <<services, serve, keeper, kept, stopped, dialed, shut, listening, broken, up>>

\* _handle: the handler's response, or an error: it raised, set a status in its
\* context, or nothing of that name is served.
Handled(c) == {Response(c), Error(c)}

\* A thread of the dispatcher has served the request.
Answer(t, c) ==
  /\ <<t, c>> \in handling
  /\ handling' = handling \ {<<t, c>>}
  /\ \E frame \in Handled(c) :
       up' = IF t \in shut \union broken THEN up ELSE Send(up, t, frame)
  /\ UNCHANGED <<services, serve, keeper, kept, stopped, dialed, acked, shut,
                 listening, broken, down>>

-----------------------------------------------------------------------------
(* The network. *)

\* Streams that ended otherwise than by a release.
Ended == broken \union {t \in Tunnel : far[t] = "closed"}

Break(t) ==
  /\ Cardinality(Ended) < MaxBreaks
  /\ far[t] = "open" /\ t \notin broken \union shut
  /\ broken' = broken \union {t}
  /\ up' = [up EXCEPT ![t] = <<>>]
  /\ down' = [down EXCEPT ![t] = <<>>]
  /\ UNCHANGED <<dialing, listening>>

-----------------------------------------------------------------------------
(* The listening node: its reading thread of a tunnel. *)

Received(t, kind) == far[t] = "open" /\ up[t] # <<>> /\ Head(up[t]).kind = kind

ReadHello(t) ==
  LET announced == Head(up[t]).addresses
  IN  /\ Received(t, "hello")
      /\ up' = [up EXCEPT ![t] = Tail(@)]
      /\ addresses' = [addresses EXCEPT ![t] = @ \union announced]
      /\ routes' = [a \in Address |-> IF a \in announced THEN t ELSE routes[a]]
      /\ behind' = behind \union announced
      /\ down' = IF t \in broken \union shut THEN down ELSE Send(down, t, Hello({}))
      /\ UNCHANGED <<dialing, far, calls, broken>>

\* _reply: an answer nobody waits for any more is dropped.
ReadResponse(t) ==
  /\ Received(t, "response") \/ Received(t, "error")
  /\ up' = [up EXCEPT ![t] = Tail(@)]
  /\ LET c == Head(up[t]).call
         got == IF Head(up[t]).kind = "response" THEN "answered" ELSE "refused"
     IN  calls' = IF calls[c].at = "waiting" THEN [calls EXCEPT ![c].at = got] ELSE calls
  /\ UNCHANGED <<dialing, far, addresses, routes, behind, broken, down>>

\* Mutant: the addresses are dropped whoever serves them now.
RoutesWithoutAny(t) == [a \in Address |-> IF a \in addresses[t] THEN None ELSE routes[a]]

\* _on_close: a newer tunnel keeps its addresses.
RoutesWithout(t) == [a \in Address |-> IF routes[a] = t THEN None ELSE routes[a]]

\* Tunnel.close: whoever waits for an answer is told.
FarCloses(t) ==
  /\ far' = [far EXCEPT ![t] = "closed"]
  /\ routes' = RoutesWithout(t)
  /\ calls' = [c \in Call |-> IF calls[c].at = "waiting" /\ calls[c].tunnel = t
                             THEN [calls[c] EXCEPT !.at = "unavailable"] ELSE calls[c]]
  /\ UNCHANGED <<dialing, addresses, behind, broken, up, down>>

\* The stream ended.
CloseFar(t) == far[t] = "open" /\ t \in broken \union shut /\ FarCloses(t)

\* Router.close, of a router that stays usable: the tunnels it routes to.
CloseRouter(t) ==
  /\ far[t] = "open" /\ \E a \in Address : routes[a] = t
  /\ Cardinality(Ended) < MaxBreaks
  /\ FarCloses(t)

-----------------------------------------------------------------------------
(* The listening node: its calls.  An address that was ever announced by a *)
(* tunnel is not dialed directly. *)

_route(a) == IF routes[a] # None /\ far[routes[a]] = "open" THEN routes[a] ELSE None

Route(c) ==
  /\ calls[c].at = "idle"
  /\ \E a \in behind :
       calls' = [calls EXCEPT ![c] = [at |-> IF _route(a) # None THEN "routed" ELSE "unavailable",
                                      to |-> a, tunnel |-> _route(a)]]
  /\ UNCHANGED <<dialing, far, addresses, routes, behind, broken, up, down>>

\* Mutant: the tunnel is not looked at again.
StartUnchecked(c) ==
  /\ calls[c].at = "routed"
  /\ calls' = [calls EXCEPT ![c].at = "waiting"]
  /\ down' = IF calls[c].tunnel \in broken THEN down ELSE Send(down, calls[c].tunnel, Request(c))
  /\ UNCHANGED <<dialing, far, addresses, routes, behind, broken, up>>

\* Under the tunnel's lock, as close() is.
StartCall(c) ==
  LET t == calls[c].tunnel
  IN  /\ calls[c].at = "routed"
      /\ IF far[t] = "closed"
         THEN calls' = [calls EXCEPT ![c].at = "unavailable"] /\ UNCHANGED down
         ELSE /\ calls' = [calls EXCEPT ![c].at = "waiting"]
              /\ down' = IF t \in broken \union shut THEN down ELSE Send(down, t, Request(c))
      /\ UNCHANGED <<dialing, far, addresses, routes, behind, broken, up>>

TimeOut(c) ==
  /\ c \in Timed /\ calls[c].at = "waiting"
  /\ calls' = [calls EXCEPT ![c].at = "timedOut"]
  /\ UNCHANGED <<dialing, far, addresses, routes, behind, broken, up, down>>

-----------------------------------------------------------------------------
ServeThread(a) == ReadAddresses(a) \/ Announce(a)

KeeperThread(k) ==
  \/ KeeperTop(k) \/ Dial(k) \/ SendHello(k) \/ OpenStream(k) \/ CheckStop(k)
  \/ ReadEnds(k) \/ ReadFrame(k)

FarThread(t) == ReadHello(t) \/ ReadResponse(t)

RouterNext ==
  \/ \E a \in Address : Serve(a) \/ ServeThread(a)
  \/ Keep \/ Release
  \/ \E k \in Keeper : StopCloses(k) \/ KeeperThread(k)
  \/ \E t \in Tunnel, c \in Call : Answer(t, c)
  \/ \E t \in Tunnel : Break(t) \/ FarThread(t) \/ CloseFar(t) \/ CloseRouter(t)
  \/ \E c \in Call : Route(c) \/ StartCall(c) \/ TimeOut(c)

\* Threads run; the network carries frames, lets the node dial again and tells
\* both ends of a stream that broke.  Nobody has to serve, keep, release or call.
RouterFairness ==
  /\ \A a \in Address : WF_routerVars(ServeThread(a))
  /\ \A k \in Keeper : WF_routerVars(StopCloses(k)) /\ WF_routerVars(KeeperThread(k))
  /\ \A t \in Tunnel, c \in Call : WF_routerVars(Answer(t, c))
  /\ \A t \in Tunnel : WF_routerVars(FarThread(t)) /\ WF_routerVars(CloseFar(t))
  /\ \A c \in Call : WF_routerVars(StartCall(c))

RouterSpec == RouterInit /\ [][RouterNext]_routerVars /\ RouterFairness
-----------------------------------------------------------------------------
\* The values of every variable.
RouterTypeOK ==
  /\ services \subseteq Address
  /\ \A a \in Address : /\ serve[a].at \in {"no", "added", "read", "done"}
                        /\ serve[a].announces \subseteq services
  /\ \A k \in Keeper : /\ keeper[k].at \in {"new", "top", "dial", "named", "hello", "opened",
                                            "reading", "ended"}
                       /\ keeper[k].tunnel \in 0 .. dialed
  /\ kept \in Keeper \union {None} /\ stopped \subseteq Keeper
  /\ dialed \in Tunnel \union {0}
  /\ acked \union shut \union broken \subseteq 1 .. dialed
  /\ handling \subseteq Tunnel \X Call
  /\ \A t \in Tunnel : far[t] \in {"none", "open", "closed"} /\ addresses[t] \subseteq behind
  /\ \A a \in Address : routes[a] \in 0 .. dialed
  /\ \A c \in Call : /\ calls[c].at \in {"idle", "routed", "waiting", "answered", "refused",
                                         "unavailable", "timedOut"}
                     /\ calls[c].tunnel \in 0 .. dialed

\* keep(wait=...) returns when HELLO was answered.  From then on, while neither
\* end is closed, the far node's calls to all the tunnel announced go down this
\* tunnel, whatever became of the ones before it.
ReadyMeansRouted ==
  \A t \in acked \ shut : far[t] = "open" => \A a \in addresses[t] : routes[a] = t

\* No call waits for ever for an answer: it is answered, or told that the
\* tunnel is gone, even one made without a timeout as the tunnel closes.
NoCallHangs ==
  \A c \in Call : calls[c].at = "waiting" ~> calls[c].at # "waiting"

\* "The dialing side dials again with backoff and announces itself again": when
\* the node is kept and streams stop breaking, all it serves is in the end
\* routed to an open tunnel, whatever serve() calls raced with the dialing.
Reachable == \A a \in services : routes[a] # None /\ far[routes[a]] = "open"
                                   /\ routes[a] \notin broken \union shut
KeptNodeIsReachable == <>[](kept = None \/ Reachable)

\* A tunnel that is released ends, even if stop() came while it was being made:
\* no stream of a released keeper stays open at either end.
ReleasedTunnelsClose ==
  <>[](\A k \in Keeper : keeper[k].stop =>
         \/ keeper[k].tunnel = None
         \/ keeper[k].tunnel \in shut /\ far[keeper[k].tunnel] # "open")

(* Nobody waits for ever on a tunnel that is gone: no caller for its       *)
(* answer, no released stream for its end (Tunnel.call, Tunnel.close,      *)
(* _Keeper.stop). *)
CallsAndTunnelsEnd == NoCallHangs /\ ReleasedTunnelsClose
=============================================================================
