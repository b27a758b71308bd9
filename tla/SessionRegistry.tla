-------------------------- MODULE SessionRegistry --------------------------
(***************************************************************************)
(* The browser sessions of integrations/mcp/mcp.go: tool calls open, use   *)
(* and close sessions under ids kept in a map.  Every access to the map is *)
(* a critical section of its own; the factory and the sessions run outside *)
(* the mutex, so that tool calls interleave between the critical sections. *)
(*                                                                         *)
(* A session is named by the call that created it.  An id is one a caller  *)
(* gives or the number n of "session-n", which a caller may give as well.  *)
(* ListSessions only reads.                                                *)
(***************************************************************************)
EXTENDS Integers, FiniteSets

CONSTANTS
    Calls,      \* tool calls
    GivenIds,   \* the ids callers make up, after TrimSpace
    NoSession

VARIABLES
    callAt,     \* where each call is
    id,         \* the id it is about
    type,       \* the type it opens or asks for, "any" for Screenshot
    handle,     \* the session it holds
    sessions,   \* s.sessions: id -> [session, type]
    opening,    \* s.opening
    counter,    \* s.counter
    born,       \* the sessions the factory has made
    alive,      \* those that answer Alive with true
    closes      \* how often each session's Close was called

registryVars == <<sessions, opening, counter>>
sessionVars == <<born, alive, closes>>
toolVars == <<callAt, id, type, handle, registryVars, sessionVars>>

Types == {"dynamic", "stealthy"}
CallPlaces == {"new", "reserve", "create", "store", "clear", "use", "close", "done"}
Ids == GivenIds \cup Nat

ASSUME RegistryAssumption ==
    /\ IsFiniteSet(Calls)
    /\ NoSession \notin Calls

RegistryInit ==
    /\ callAt = [c \in Calls |-> "new"]
    /\ id = [c \in Calls |-> 0] /\ type = [c \in Calls |-> "any"]
    /\ handle = [c \in Calls |-> NoSession]
    /\ sessions = [i \in {} |-> NoSession] /\ opening = {} /\ counter = 0
    /\ born = {} /\ alive = {} /\ closes = [c \in Calls |-> 0]

----------------------------------------------------------------------------
Move(c, from, to) == callAt[c] = from /\ callAt' = [callAt EXCEPT ![c] = to]
Hold(c, session) == handle' = [handle EXCEPT ![c] = session]

\* An id a caller can know: one made up, or one an earlier answer may have told.
KnownIds == GivenIds \cup 1..counter

\* OpenSession with an id (a type it does not know is refused at once) ...
OpenNamed(c) ==
    /\ Move(c, "new", "reserve")
    /\ \E i \in GivenIds : id' = [id EXCEPT ![c] = i]
    /\ \E t \in Types : type' = [type EXCEPT ![c] = t]
    /\ UNCHANGED <<handle, registryVars, sessionVars>>

\* ... and without: nextSessionID.
OpenUnnamed(c) ==
    /\ Move(c, "new", "reserve")
    /\ counter' = counter + 1
    /\ id' = [id EXCEPT ![c] = counter + 1]
    /\ \E t \in Types : type' = [type EXCEPT ![c] = t]
    /\ UNCHANGED <<handle, sessions, opening, sessionVars>>

\* Mutant: ids that are being opened are not looked at.
TakenOnceOpen(i) == i \in DOMAIN sessions
\* reserveSessionID
Taken(i) == i \in DOMAIN sessions \cup opening
Reserve(c) ==
    /\ IF Taken(id[c])
       THEN Move(c, "reserve", "done") /\ UNCHANGED opening
       ELSE Move(c, "reserve", "create") /\ opening' = opening \cup {id[c]}
    /\ UNCHANGED <<id, type, handle, sessions, counter, sessionVars>>

\* The browser factory, which makes a session that is alive, or fails.
Make(c) ==
    /\ born' = born \cup {c} /\ alive' = alive \cup {c}
    /\ Hold(c, c)
    /\ UNCHANGED closes

\* OpenSession calls it outside the mutex.
CreateSession(c) ==
    /\ \/ Move(c, "create", "store") /\ Make(c)
       \/ Move(c, "create", "clear") /\ UNCHANGED <<handle, sessionVars>>
    /\ UNCHANGED <<id, type, registryVars>>

\* Mutant: the error path returns without clearing the reservation.
ForgetReservation(c) == Move(c, "clear", "done") /\ UNCHANGED <<id, type, handle, registryVars, sessionVars>>
\* clearSessionReservation
ClearReservation(c) ==
    /\ Move(c, "clear", "done")
    /\ opening' = opening \ {id[c]}
    /\ UNCHANGED <<id, type, handle, sessions, counter, sessionVars>>

\* storeReservedSession
StoreSession(c) ==
    /\ Move(c, "store", "done")
    /\ opening' = opening \ {id[c]}
    /\ sessions' = [i \in DOMAIN sessions \cup {id[c]} |->
                       IF i = id[c] THEN [session |-> handle[c], type |-> type[c]] ELSE sessions[i]]
    /\ Hold(c, NoSession)
    /\ UNCHANGED <<id, type, counter, sessionVars>>

\* browserSessionFor without an id: a session for this call alone.
FetchWithTemporary(c) ==
    /\ \E t \in Types : type' = [type EXCEPT ![c] = t]
    /\ \/ Move(c, "new", "use") /\ Make(c)
       \/ Move(c, "new", "done") /\ UNCHANGED <<handle, sessionVars>>
    /\ UNCHANGED <<id, registryVars>>

\* getSession, for Fetch and its variants with a type, for Screenshot with any.
Usable(i, t) ==
    /\ i \in DOMAIN sessions
    /\ sessions[i].session \in alive
    /\ t \in {"any", sessions[i].type}
FetchWithSession(c) ==
    \E i \in KnownIds, t \in Types \cup {"any"} :
        /\ id' = [id EXCEPT ![c] = i] /\ type' = [type EXCEPT ![c] = t]
        /\ IF Usable(i, t)
           THEN Move(c, "new", "use") /\ Hold(c, sessions[i].session)
           ELSE Move(c, "new", "done") /\ UNCHANGED handle
        /\ UNCHANGED <<registryVars, sessionVars>>

\* closeWhenDone
IsTemporary(c) == handle[c] = c
\* The session's Fetch or Screenshot returns; only a temporary session is closed.
FinishUse(c) ==
    /\ \/ IsTemporary(c) /\ Move(c, "use", "close") /\ UNCHANGED handle
       \/ ~IsTemporary(c) /\ Move(c, "use", "done") /\ Hold(c, NoSession)
    /\ UNCHANGED <<id, type, registryVars, sessionVars>>

\* Mutant: the session is looked up and closed, its entry stays.
PeekSession(c) ==
    /\ \E i \in KnownIds :
        /\ id' = [id EXCEPT ![c] = i]
        /\ IF i \in DOMAIN sessions
           THEN Move(c, "new", "close") /\ Hold(c, sessions[i].session)
           ELSE Move(c, "new", "done") /\ UNCHANGED handle
    /\ UNCHANGED <<type, registryVars, sessionVars>>
\* CloseSession: removeSession ...
RemoveSession(c) ==
    /\ \E i \in KnownIds :
        /\ id' = [id EXCEPT ![c] = i]
        /\ IF i \in DOMAIN sessions
           THEN /\ Move(c, "new", "close")
                /\ Hold(c, sessions[i].session)
                /\ sessions' = [j \in DOMAIN sessions \ {i} |-> sessions[j]]
           ELSE Move(c, "new", "done") /\ UNCHANGED <<handle, sessions>>
    /\ UNCHANGED <<type, opening, counter, sessionVars>>

\* ... then the session's Close, which may fail and leave it alive.
CloseHeld(c) ==
    /\ Move(c, "close", "done")
    /\ closes' = [closes EXCEPT ![handle[c]] = @ + 1]
    /\ alive' \in {alive, alive \ {handle[c]}}
    /\ Hold(c, NoSession)
    /\ UNCHANGED <<id, type, registryVars, born>>

\* A session dies by itself.
Die(s) ==
    /\ s \in alive /\ alive' = alive \ {s}
    /\ UNCHANGED <<callAt, id, type, handle, registryVars, born, closes>>

CallStep(c) ==
    \/ OpenNamed(c) \/ OpenUnnamed(c) \/ Reserve(c) \/ CreateSession(c) \/ ClearReservation(c)
    \/ StoreSession(c) \/ FetchWithTemporary(c) \/ FetchWithSession(c) \/ FinishUse(c)
    \/ RemoveSession(c) \/ CloseHeld(c)

\* Every tool call has returned.
CallsRest == (\A c \in Calls : callAt[c] = "done") /\ UNCHANGED toolVars

RegistryNext == CallsRest \/ (\E c \in Calls : CallStep(c)) \/ (\E s \in born : Die(s))

RegistrySpec == RegistryInit /\ [][RegistryNext]_toolVars
----------------------------------------------------------------------------
RegistryTypeOK ==
    /\ callAt \in [Calls -> CallPlaces]
    /\ id \in [Calls -> Ids] /\ type \in [Calls -> Types \cup {"any"}]
    /\ handle \in [Calls -> Calls \cup {NoSession}]
    /\ \A c \in Calls : handle[c] # NoSession <=> callAt[c] \in {"store", "use", "close"}
    /\ DOMAIN sessions \subseteq Ids
    /\ \A i \in DOMAIN sessions : sessions[i] \in [session : born, type : Types]
    /\ opening \subseteq Ids /\ counter \in Nat
    /\ alive \subseteq born /\ born \subseteq Calls
    /\ closes \in [Calls -> Nat]

\* An id is reserved exactly while one call opens it, and never while a session is
\* registered under it: no reservation leaks and no open overtakes another.
\* (reserveSessionID, clearSessionReservation, storeReservedSession)
Opens(c) == callAt[c] \in {"create", "store", "clear"}
ReservationsExact ==
    /\ opening = {id[c] : c \in {d \in Calls : Opens(d)}}
    /\ \A c, d \in Calls : Opens(c) /\ Opens(d) /\ id[c] = id[d] => c = d
    /\ opening \cap DOMAIN sessions = {}

\* The call that has to store or close session s; a call that merely uses a
\* registered session does not own it.
Owns(c, s) ==
    /\ handle[c] = s
    /\ callAt[c] \in {"store", "close"} \/ (callAt[c] = "use" /\ c = s)
IsRegistered(s) == \E i \in DOMAIN sessions : sessions[i].session = s

\* No session is lost open or closed twice: until its Close is called, once, it is
\* either under one id or in the hands of one call that will store or close it.
SessionsOwned ==
    \A s \in born :
        /\ closes[s] \in {0, 1}
        /\ closes[s] = 0 <=> IsRegistered(s) \/ \E c \in Calls : Owns(c, s)
        /\ \A c \in Calls : Owns(c, s) => ~IsRegistered(s)
        /\ \A c, d \in Calls : Owns(c, s) /\ Owns(d, s) => c = d
        /\ \A i, j \in DOMAIN sessions :
              sessions[i].session = s /\ sessions[j].session = s => i = j

\* The registry's books are right in every interleaving of opens, fetches, closes and
\* deaths: each id is reserved by one call, each session has one owner.
RegistrySound == RegistryTypeOK /\ ReservationsExact /\ SessionsOwned

\* A registered session stays under its id until a CloseSession takes it out: an
\* OpenSession of the same id never puts another in its place.
EntriesNotReplaced ==
    [][\A i \in DOMAIN sessions \cap DOMAIN sessions' : sessions'[i] = sessions[i]]_toolVars
============================================================================
