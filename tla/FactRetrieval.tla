---------------------------- MODULE FactRetrieval ----------------------------
(***************************************************************************)
(* The readers of the first generation, composed with the calls that       *)
(* write: mnemosyne_search and mnemosyne_open                              *)
(* (src/src/okf-retrieval-runtime.ts, okf-search.ts).  A search discloses  *)
(* items of the generation CURRENT names and leaves a grant in a registry  *)
(* of fixed size; open discloses the body of an item of a grant, from the  *)
(* generation of the grant, whatever CURRENT names by then.                *)
(*                                                                         *)
(* Generations, manifests and facts never change and never go, so a search *)
(* is one step, at the moment it reads CURRENT, and open, which changes    *)
(* nothing, is an operator: what it answers at any moment.                 *)
(*                                                                         *)
(* mnemosyne_list (src/src/management-runtime.ts) reads the facts          *)
(* themselves, in three readings, and waits for no other call: it is no    *)
(* mutation, and does not go through the coordinator.                      *)
(***************************************************************************)
EXTENDS FactWorld, Sequences

CONSTANTS
    MaxGrants,   \* MAX_REGISTRY_GRANTS
    MaxSearches, \* bound: searches
    MaxLists     \* bound: calls of the list

ASSUME GrantAssumption == MaxGrants \in Nat \ {0} /\ MaxSearches \in Nat /\ MaxLists \in Nat

VARIABLES
    grants,      \* the registry, in the order its keys were inserted
    latest,      \* the last disclosure a search has given
    searches,
    listing,     \* the list in progress
    lists

listVars   == <<listing, lists>>
readerVars == <<grants, latest, searches, listVars>>

(* retrieval_id and the hash of the disclosure stand for the session, the  *)
(* generation and the items.                                               *)
Disclosure == [session : Session, generation : Generation, items : SUBSET Ref]

ReaderInit ==
    /\ Init
    /\ grants = <<>> /\ latest = None /\ searches = 0
    /\ listing = None /\ lists = 0

(* Long-term facts are seen from every session, short-term ones from their *)
(* own.                                                                    *)
Visible(g, s) ==
    ({"long_term"} \X g.long)
    \cup ({"short_term"} \X {m \in g.short : SessionOf[m] = s})

Registered == {grants[i] : i \in DOMAIN grants}

(* Map.set: a key that is there keeps its place, a new one may push the    *)
(* oldest out.                                                             *)
Register(d) ==
    IF d \in Registered THEN grants
    ELSE IF Len(grants) >= MaxGrants THEN Append(Tail(grants), d) ELSE Append(grants, d)

(* The query selects some of what the session may see; a disclosure        *)
(* without items leaves no grant.                                          *)
Search(s) ==
    /\ searches < MaxSearches /\ searches' = searches + 1
    /\ IF current = None \/ ~Verifies(current)
       THEN UNCHANGED <<grants, latest>>
       ELSE \E items \in SUBSET Visible(current, s) :
              LET d == [session |-> s, generation |-> current, items |-> items] IN
              IF items = {} THEN UNCHANGED <<grants, latest>>
              ELSE /\ grants' = Register(d)
                   /\ latest' = d
    /\ UNCHANGED <<listVars, vars>>

(* Mutant of OpenOutcome: the memory is looked for in CURRENT. *)
OpenOutcomeOfCurrent(s, d, ref) ==
    IF d \notin Registered THEN "no grant"
    ELSE IF d.session # s THEN "other scope"
    ELSE IF ~Serves(current, ref) THEN "not indexed" ELSE "body"

(* What open answers a session that shows disclosure d and asks for ref.   *)
OpenOutcome(s, d, ref) ==
    IF d \notin Registered THEN "no grant"
    ELSE IF d.session # s THEN "other scope"
    ELSE IF ref \notin d.items THEN "not returned"
    ELSE IF ~Verifies(d.generation) THEN "incomplete"
    ELSE IF ~Serves(d.generation, ref) THEN "not indexed"
    ELSE "body"

(* runtime.clear(), when the plugin is disposed. *)
Clear ==
    /\ grants # <<>>
    /\ grants' = <<>> /\ latest' = None
    /\ UNCHANGED <<searches, listVars, vars>>

(***************************************************************************)
(* mnemosyne_list                                                          *)
(***************************************************************************)

(* What the compiler would serve the session of the facts there are now.   *)
Active(s, at) == Visible(Compiled(short, long, forgotten, at), s)

(* Mutant of ListOrder: what was forgotten is read first. *)
ListOrderForgetFirst == <<"forget", "short", "long">>

(* The directories of the three kinds of facts, one after the other.       *)
ListOrder == <<"short", "long", "forget">>

(* start and instant are history: what was active when the list began and  *)
(* when it read the long-term facts.                                       *)
ListBegin(s, at) ==
    /\ listing = None /\ lists < MaxLists /\ lists' = lists + 1
    /\ listing' = [session |-> s, at |-> at, todo |-> ListOrder, short |-> {}, long |-> {},
                   forgotten |-> {}, start |-> Active(s, at), instant |-> {}]
    /\ UNCHANGED <<grants, latest, searches, vars>>

ListRead ==
    /\ listing # None /\ listing.todo # <<>>
    /\ LET l == [listing EXCEPT !.todo = Tail(@)] IN
       listing' = CASE Head(listing.todo) = "short" ->
                         [l EXCEPT !.short = {m \in short : SessionOf[m] = l.session}]
                    [] Head(listing.todo) = "long" ->
                         [l EXCEPT !.long = long, !.instant = Active(l.session, l.at)]
                    [] Head(listing.todo) = "forget" -> [l EXCEPT !.forgotten = forgotten]
    /\ UNCHANGED <<grants, latest, searches, lists, vars>>

(* It answers; a reading that failed answers an error at any time before.  *)
ListReturn ==
    /\ listing # None /\ listing' = None
    /\ UNCHANGED <<grants, latest, searches, lists, vars>>

(* The state of a fact at a time, for the facts read. *)
StateOf(ref, l, f, at) ==
    IF ref \in f THEN "forgotten"
    ELSE IF ref[1] = "long_term" THEN "active"
    ELSE IF ref[2] \in l THEN "promoted"
    ELSE IF at >= ExpiresAt(ref[2]) THEN "expired" ELSE "active"

(* What it lists, of what it read, when inactive facts are not asked for.  *)
Listed(l) ==
    {ref \in ({"short_term"} \X l.short) \cup ({"long_term"} \X l.long) :
        StateOf(ref, l.long, l.forgotten, l.at) = "active"}

RetrievalNext ==
    \/ Next /\ UNCHANGED readerVars
    \/ \E s \in Session : Search(s)
    \/ Clear
    \/ \E s \in Session, at \in {t.at : t \in UNION {Work[c] : c \in Call}} : ListBegin(s, at)
    \/ ListRead
    \/ ListReturn

RetrievalSpec == ReaderInit /\ [][RetrievalNext]_<<vars, readerVars>> /\ Fairness

(***************************************************************************)
(* Properties                                                              *)
(***************************************************************************)

(* A grant in the registry can be used: the generation it was given on     *)
(* still verifies, though CURRENT has moved on and its memories may be     *)
(* forgotten or promoted, so open never answers that a generation drifted, *)
(* is incomplete or does not know the memory.                              *)
GrantsStayOpenable ==
    \A d \in Registered :
        /\ Verifies(d.generation)
        /\ \A s \in Session, ref \in d.items :
              OpenOutcome(s, d, ref) = IF s = d.session THEN "body" ELSE "other scope"

(* A list reads three directories while other calls, of any process,       *)
(* remember, promote and forget, and yet it answers as of one instant, by  *)
(* the compiler's own idea of what is active: everything it calls active   *)
(* was so when it read the long-term facts, so no memory is shown together *)
(* with its promotion, and none that was forgotten.  It misses nothing     *)
(* that was active from its beginning to its end, and no memory that was   *)
(* promoted meanwhile, unless the source was forgotten after it            *)
(* (management-runtime.ts:104-106, 111-198).                               *)
ListIsOfOneInstant ==
    listing # None /\ listing.todo = <<>> =>
        LET now  == Active(listing.session, listing.at)
            seen == Listed(listing)
        IN /\ seen \subseteq listing.instant
           /\ listing.start \cap now \subseteq seen
           /\ \A m \in Call :
                 /\ <<"short_term", m>> \in listing.start /\ <<"short_term", m>> \notin forgotten
                 /\ <<"long_term", m>> \in now
                 => <<"short_term", m>> \in seen \/ <<"long_term", m>> \in seen

(* The registry stays within its size with distinct keys, and the search a *)
(* session has just made can be opened, whatever it pushed out.            *)
LatestSearchOpens ==
    /\ Len(grants) <= MaxGrants
    /\ \A i, j \in DOMAIN grants : grants[i] = grants[j] => i = j
    /\ latest # None => latest \in Registered

(* What a search has disclosed can be opened for as long as it should. *)
DisclosedOpens == GrantsStayOpenable /\ LatestSearchOpens
=============================================================================
