------------------------------ MODULE Startup ------------------------------
(***************************************************************************)
(* Starting the server: main and AppInitServers (src/init.cpp),            *)
(* InitHTTPServer with its owning pointers (src/httpserver.cpp,            *)
(* support/events.h), StartHTTPRPC (src/httprpc.cpp) and                   *)
(* GenerateAuthCookie (rpc/protocol.cpp), for several processes started in *)
(* one directory of one host, each of which may end at any moment.         *)
(*                                                                         *)
(* They share what outlives them or lies between them: the ports of the    *)
(* host and the file ./.cookie.  A port has one listener at a time (the    *)
(* operating system), and binding may fail although the port is free.      *)
(***************************************************************************)
EXTENDS Naturals, Sequences

CONSTANTS
  Procs,       \* processes
  Nobody       \* not a process

ASSUME StartupAssumption == Nobody \notin Procs

\* HTTPBindAddresses: the endpoints, in this order.
Endpoints == <<"::1", "127.0.0.1">>

VARIABLES
  place,         \* where main of the process is, "down" before it and behind it
  base,          \* event_base: "none", held by base_ctr ("raii") or by eventBase ("global")
  http,          \* evhttp: the same, http_ctr and eventHTTP
  tried,         \* endpoints HTTPBindAddresses has tried
  boundSockets,  \* endpoints with a handle in boundSockets
  listener,      \* the process listening on each endpoint, or Nobody
  token,         \* strRPCUserColonPass, NoCookie when empty
  file,          \* the cookie in ./.cookie, NoCookie when absent or empty
  lost           \* processes whose cookie did not reach the disk

own == <<place, base, http, tried, boundSockets, token>>
vars == <<own, listener, file, lost>>

\* GetRandBytes fills its buffer with ones, HexStr spells them: there is one
\* cookie, and all processes share it.
NoCookie == 0
Cookie == 1
Cookies == {NoCookie, Cookie}

Init ==
  /\ place = [p \in Procs |-> "down"]
  /\ base = [p \in Procs |-> "none"]
  /\ http = [p \in Procs |-> "none"]
  /\ tried = [p \in Procs |-> 0]
  /\ boundSockets = [p \in Procs |-> {}]
  /\ listener = [a \in DOMAIN Endpoints |-> Nobody]
  /\ token = [p \in Procs |-> NoCookie]
  /\ file = NoCookie
  /\ lost = {}
-----------------------------------------------------------------------------
GoTo(p, next) == place' = [place EXCEPT ![p] = next]

Boot(p) ==
  /\ place[p] = "down"
  /\ GoTo(p, "obtainBase")
  /\ UNCHANGED <<base, http, tried, boundSockets, token, listener, file, lost>>

\* obtain_event_base and obtain_evhttp throw when they get no object; main
\* does not catch that, see Exit.
ObtainBase(p) ==
  /\ place[p] = "obtainBase"
  /\ base' = [base EXCEPT ![p] = "raii"]
  /\ GoTo(p, "obtainHttp")
  /\ UNCHANGED <<http, tried, boundSockets, token, listener, file, lost>>

ObtainHttp(p) ==
  /\ place[p] = "obtainHttp"
  /\ http' = [http EXCEPT ![p] = "raii"]
  /\ GoTo(p, "bind")
  /\ UNCHANGED <<base, tried, boundSockets, token, listener, file, lost>>

\* Mutant of Bind: a failed endpoint advances the loop twice.
BindSkipping(p) ==
  /\ place[p] = "bind"
  /\ tried[p] < Len(Endpoints)
  /\ LET a == tried[p] + 1
     IN  \/ /\ listener[a] = Nobody
            /\ tried' = [tried EXCEPT ![p] = a]
            /\ listener' = [listener EXCEPT ![a] = p]
            /\ boundSockets' = [boundSockets EXCEPT ![p] = @ \cup {a}]
         \/ /\ tried' = [tried EXCEPT ![p] = a + 1]
            /\ UNCHANGED <<listener, boundSockets>>
  /\ UNCHANGED <<place, base, http, token, file, lost>>

\* One turn of the loop of HTTPBindAddresses.
Bind(p) ==
  /\ place[p] = "bind"
  /\ tried[p] < Len(Endpoints)
  /\ LET a == tried[p] + 1
     IN  /\ tried' = [tried EXCEPT ![p] = a]
         /\ \/ /\ listener[a] = Nobody
               /\ listener' = [listener EXCEPT ![a] = p]
               /\ boundSockets' = [boundSockets EXCEPT ![p] = @ \cup {a}]
            \/ UNCHANGED <<listener, boundSockets>>
  /\ UNCHANGED <<place, base, http, token, file, lost>>

Released(p) == [a \in DOMAIN listener |-> IF listener[a] = p THEN Nobody ELSE listener[a]]

\* Mutant of FinishInit: all endpoints are asked for.
FinishInitAll(p) ==
  /\ place[p] = "bind"
  /\ tried[p] = Len(Endpoints)
  /\ \/ /\ boundSockets[p] # DOMAIN Endpoints
        /\ base' = [base EXCEPT ![p] = "none"]
        /\ http' = [http EXCEPT ![p] = "none"]
        /\ listener' = Released(p)
        /\ GoTo(p, "failed")
     \/ /\ boundSockets[p] = DOMAIN Endpoints
        /\ base' = [base EXCEPT ![p] = "global"]
        /\ http' = [http EXCEPT ![p] = "global"]
        /\ GoTo(p, "openCookie")
        /\ UNCHANGED listener
  /\ UNCHANGED <<tried, boundSockets, token, file, lost>>

\* Mutant of FinishInit: it succeeds without a socket.
FinishInitAnyway(p) ==
  /\ place[p] = "bind"
  /\ tried[p] = Len(Endpoints)
  /\ base' = [base EXCEPT ![p] = "global"]
  /\ http' = [http EXCEPT ![p] = "global"]
  /\ GoTo(p, "openCookie")
  /\ UNCHANGED <<listener, tried, boundSockets, token, file, lost>>

\* The end of InitHTTPServer: without a socket the owning pointers free the
\* server and the base, which closes their sockets; otherwise the globals
\* take them over.
FinishInit(p) ==
  /\ place[p] = "bind"
  /\ tried[p] = Len(Endpoints)
  /\ \/ /\ boundSockets[p] = {}
        /\ base' = [base EXCEPT ![p] = "none"]
        /\ http' = [http EXCEPT ![p] = "none"]
        /\ listener' = Released(p)
        /\ GoTo(p, "failed")
     \/ /\ boundSockets[p] # {}
        /\ base' = [base EXCEPT ![p] = "global"]
        /\ http' = [http EXCEPT ![p] = "global"]
        /\ GoTo(p, "openCookie")
        /\ UNCHANGED listener
  /\ UNCHANGED <<tried, boundSockets, token, file, lost>>

\* StartHTTPRPC: file.open truncates the file, or fails.
OpenCookie(p) ==
  /\ place[p] = "openCookie"
  /\ \/ /\ file' = NoCookie
        /\ GoTo(p, "writeCookie")
     \/ /\ GoTo(p, "failed")
        /\ UNCHANGED file
  /\ UNCHANGED <<base, http, tried, boundSockets, token, listener, lost>>

\* file << cookie; file.close(): what was written goes to the disk here, or
\* is lost unnoticed, and the cookie is returned in either case.
WriteCookie(p) ==
  /\ place[p] = "writeCookie"
  /\ \/ /\ file' = Cookie
        /\ UNCHANGED lost
     \/ /\ lost' = lost \cup {p}
        /\ UNCHANGED file
  /\ token' = [token EXCEPT ![p] = Cookie]
  /\ GoTo(p, "register")
  /\ UNCHANGED <<base, http, tried, boundSockets, listener>>

\* RegisterHTTPHandler, assert(eventBase), RPCSetTimerInterface; when the
\* assertion fails there is only Exit.
Register(p) ==
  /\ place[p] = "register"
  /\ base[p] = "global"
  /\ GoTo(p, "serving")
  /\ UNCHANGED <<base, http, tried, boundSockets, token, listener, file, lost>>

\* The process ends, of itself, by an exception or from outside; only the
\* file outlives it.
Exit(p) ==
  /\ place[p] # "down"
  /\ GoTo(p, "down")
  /\ base' = [base EXCEPT ![p] = "none"]
  /\ http' = [http EXCEPT ![p] = "none"]
  /\ tried' = [tried EXCEPT ![p] = 0]
  /\ boundSockets' = [boundSockets EXCEPT ![p] = {}]
  /\ listener' = Released(p)
  /\ token' = [token EXCEPT ![p] = NoCookie]
  /\ lost' = lost \ {p}
  /\ UNCHANGED file

Next ==
  \E p \in Procs :
    \/ Boot(p)
    \/ ObtainBase(p) \/ ObtainHttp(p) \/ Bind(p) \/ FinishInit(p)
    \/ OpenCookie(p) \/ WriteCookie(p) \/ Register(p)
    \/ Exit(p)

Spec == Init /\ [][Next]_vars
-----------------------------------------------------------------------------
Owners == {"none", "raii", "global"}

TypeOK ==
  /\ place \in [Procs -> {"down", "obtainBase", "obtainHttp", "bind", "failed",
                          "openCookie", "writeCookie", "register", "serving"}]
  /\ base \in [Procs -> Owners]
  /\ http \in [Procs -> Owners]
  /\ tried \in [Procs -> 0..Len(Endpoints)]
  /\ boundSockets \in [Procs -> SUBSET DOMAIN Endpoints]
  /\ listener \in [DOMAIN Endpoints -> Procs \cup {Nobody}]
  /\ token \in [Procs -> Cookies]
  /\ file \in Cookies
  /\ lost \subseteq Procs

\* The handles in boundSockets are those of sockets that listen, and they
\* belong to a server that exists: none is left behind by a failed
\* InitHTTPServer, none listens unrecorded.
SocketsOwned ==
  \A p \in Procs :
    /\ boundSockets[p] = {a \in DOMAIN listener : listener[a] = p}
    /\ boundSockets[p] # {} => http[p] # "none" /\ base[p] # "none"

\* A server that listens on all endpoints is the one ./.cookie belongs to,
\* whatever other processes attempted to start, succeeded or crashed in the
\* meantime: the file and strRPCUserColonPass agree (GenerateAuthCookie is
\* called behind HTTPBindAddresses).
WholeServerKeepsCookie ==
  \A p \in Procs :
    (place[p] = "serving" /\ boundSockets[p] = DOMAIN Endpoints /\ p \notin lost) =>
      file = token[p] /\ token[p] # NoCookie

\* The inductive invariant behind them: what the places behind each step of
\* the start say of the process.
Started == {"openCookie", "writeCookie", "register", "serving"}

Placed ==
  \A p \in Procs :
    /\ place[p] \in {"down", "obtainBase", "obtainHttp"} => boundSockets[p] = {}
    /\ place[p] \in {"obtainHttp", "bind"} => base[p] = "raii"
    /\ place[p] = "bind" => http[p] = "raii"
    /\ place[p] \in Started => boundSockets[p] # {}

WrittenCookie ==
  \A p \in Procs :
    (/\ place[p] \in {"register", "serving"}
     /\ boundSockets[p] = DOMAIN Endpoints
     /\ p \notin lost) => file = Cookie /\ token[p] = Cookie

IInv == TypeOK /\ SocketsOwned /\ Placed /\ WrittenCookie
=============================================================================
