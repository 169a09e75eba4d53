--------------------------- MODULE ProjectQueries ---------------------------
(***************************************************************************)
(* The two questions the project service answers by walking the disk while *)
(* it changes: which projects are known, and what is in a directory.       *)
(*   node/src/project-service.ts  (listKnownProjects, browseDirectory)     *)
(*                                                                         *)
(* Paths are numbers; canonical paths sort by them, and so do names.       *)
(*                                                                         *)
(* An operator Faulty* is no part of the specification: it is the operator *)
(* below it with a plausible mistake, which a property must refute.        *)
(***************************************************************************)
EXTENDS Naturals, FiniteSets

CONSTANTS
    Spellings,    \* cwd as session files record it
    Canonical,    \* the directory each spelling resolves to
    Sessions,     \* session records of the catalogue
    Times,        \* their modification times
    ScanLimit,    \* MAX_SESSION_SCAN
    MaxProjects,  \* the limit the client asked for
    Names,        \* names in the browsed directory
    MaxChildren,  \* the limit the client asked for
    MaxVanished   \* bound: directories that come or go, replacements of an entry

Directories == {Canonical[s] : s \in Spellings}

ASSUME QueriesAssumption ==
    /\ IsFiniteSet(Sessions) /\ Names \subseteq Nat /\ IsFiniteSet(Names)
    /\ Times \subseteq Nat /\ Directories \subseteq Nat /\ Canonical \in [Spellings -> Nat]
    /\ ScanLimit \in Nat \ {0} /\ MaxProjects \in Nat \ {0} /\ MaxChildren \in Nat \ {0}

VARIABLES
    records,   \* what the catalogue lists: a directory and a time for each session
    there,     \* the directories that exist
    came,      \* history: the directories that came while the listing ran
    listing,   \* listKnownProjects
    entries,   \* what the browsed directory has under each name
    browsing   \* browseDirectory

queryVars == <<records, there, came, listing, entries, browsing>>

-----------------------------------------------------------------------------
Maximum(S) == CHOOSE t \in S : \A u \in S : u <= t
FirstName(S) == CHOOSE n \in S : \A k \in S : n <= k

Record == [cwd : Spellings, time : Times]
Group == [last : Nat, count : Nat]

(* "link" leads to a directory, "other" is a file, a link to a file or one *)
(* that leads nowhere; the number tells an entry from what replaced it.    *)
EntryKinds == {"directory", "link", "other"}
Entry == [kind : EntryKinds \cup {"gone"}, file : 0 .. MaxVanished]

QueriesInit ==
    /\ records \in [Sessions -> Record]
    /\ there \in SUBSET Directories /\ came = {}
    /\ Cardinality(Directories \ there) <= MaxVanished
    /\ listing = [phase |-> "scanning", scanned |-> {}, grouped |-> [d \in {} |-> {}],
                  candidates |-> {}, validated |-> {}]
    /\ entries \in [Names -> [kind : EntryKinds, file : {0}]]
    /\ browsing = [phase |-> "reading", left |-> {}, children |-> {}, found |-> 0,
                   before |-> 0]

placeVars == <<records, there, came>>
listingVars == <<placeVars, listing>>
browsingVars == <<entries, browsing>>

-----------------------------------------------------------------------------
(* listKnownProjects: the newest ScanLimit sessions, one after the other,  *)
(* each at its canonical path if that is still there.                      *)

FaultyNewest == Sessions \ listing.scanned       \* cut off before sorted
Newest == {i \in Sessions \ listing.scanned :
              \A j \in Sessions \ listing.scanned : records[j].time <= records[i].time}

Scanning == listing.phase = "scanning" /\ Newest # {}
                                       /\ Cardinality(listing.scanned) < ScanLimit

Joined(g, t) == [last |-> Maximum({g.last, t}), count |-> g.count + 1]

Scan(i) ==
    /\ Scanning /\ i \in Newest
    /\ LET d == Canonical[records[i].cwd]
           t == records[i].time
           g == listing.grouped
       IN  listing' = [listing EXCEPT !.scanned = @ \cup {i},
              !.grouped = IF d \notin there THEN g
                          ELSE IF d \in DOMAIN g THEN [g EXCEPT ![d] = Joined(@, t)]
                          ELSE [x \in DOMAIN g \cup {d} |->
                                   IF x = d THEN [last |-> t, count |-> 1] ELSE g[x]]]
    /\ UNCHANGED <<placeVars, browsingVars>>

(* The order of the answer: the later project first, then by path. *)
Before(d, e) == LET g == listing.grouped IN
    \/ g[e].last < g[d].last
    \/ g[e].last = g[d].last /\ d < e

ScanEnds ==
    /\ listing.phase = "scanning" /\ ~Scanning
    /\ listing' = [listing EXCEPT !.phase = "validating",
          !.candidates = {d \in DOMAIN listing.grouped :
              Cardinality({e \in DOMAIN listing.grouped : Before(e, d)}) < MaxProjects}]
    /\ UNCHANGED <<placeVars, browsingVars>>

(* The candidates are validated side by side; one that is gone by then     *)
(* fails the listing.                                                      *)
ValidateCandidate(d) ==
    /\ listing.phase = "validating" /\ d \in listing.candidates \ listing.validated
    /\ listing' = IF d \in there THEN [listing EXCEPT !.validated = @ \cup {d}]
                                 ELSE [listing EXCEPT !.phase = "failed"]
    /\ UNCHANGED <<placeVars, browsingVars>>

ListingEnds ==
    /\ listing.phase = "validating" /\ listing.validated = listing.candidates
    /\ listing' = [listing EXCEPT !.phase = "answered"]
    /\ UNCHANGED <<placeVars, browsingVars>>

-----------------------------------------------------------------------------
(* browseDirectory: the entries by name; each is looked at twice.          *)

ReadDirectory ==
    /\ browsing.phase = "reading"
    /\ browsing' = [browsing EXCEPT !.phase = "walking",
                       !.left = {n \in Names : entries[n].kind \in {"directory", "link"}}]
    /\ UNCHANGED <<listingVars, entries>>

Name == FirstName(browsing.left)

(* It may be none any more, or be gone since the directory was read. *)
LookAtEntry ==
    /\ browsing.phase = "walking" /\ browsing.left # {}
    /\ \/ /\ entries[Name].kind = "other"
          /\ browsing' = [browsing EXCEPT !.left = @ \ {Name}]
       \/ /\ entries[Name].kind = "gone"
          /\ browsing' = [browsing EXCEPT !.phase = "failed"]
       \/ /\ entries[Name].kind \in {"directory", "link"}
          /\ browsing' = [browsing EXCEPT !.phase = "looking", !.before = entries[Name].file]
    /\ UNCHANGED <<listingVars, entries>>

FaultyFull == browsing.found > MaxChildren
Full == browsing.found = MaxChildren

(* The first directory too many only says that there are more. *)
LookAgain ==
    /\ browsing.phase = "looking"
    /\ \/ /\ entries[Name].file # browsing.before
          /\ browsing' = [browsing EXCEPT !.phase = "failed"]
       \/ /\ entries[Name].file = browsing.before /\ ~Full
          /\ browsing' = [browsing EXCEPT !.phase = "walking", !.left = @ \ {Name},
                             !.children = @ \cup {Name}, !.found = @ + 1]
       \/ /\ entries[Name].file = browsing.before /\ Full
          /\ browsing' = [browsing EXCEPT !.phase = "walked", !.found = @ + 1]
    /\ UNCHANGED <<listingVars, entries>>

BrowsingEnds ==
    /\ \/ browsing.phase = "walked"
       \/ browsing.phase = "walking" /\ browsing.left = {}
    /\ browsing' = [browsing EXCEPT !.phase = "answered"]
    /\ UNCHANGED <<listingVars, entries>>

-----------------------------------------------------------------------------
(* A directory goes, or comes (back); an entry is replaced.  What the      *)
(* spellings resolve to stays as it is.                                    *)
Vanish(d) ==
    /\ d \in there /\ Cardinality((Directories \ there) \cup came) < MaxVanished
    /\ there' = there \ {d}
    /\ UNCHANGED <<records, came, listing, browsingVars>>

Appear(d) ==
    /\ d \notin there
    /\ there' = there \cup {d} /\ came' = came \cup {d}
    /\ UNCHANGED <<records, listing, browsingVars>>

ReplaceEntry(n) ==
    /\ entries[n].file < MaxVanished
    /\ \E k \in EntryKinds \cup {"gone"} :
          entries' = [entries EXCEPT ![n] = [kind |-> k, file |-> @.file + 1]]
    /\ UNCHANGED <<listingVars, browsing>>

ListNext ==
    \/ \E i \in Sessions : Scan(i)
    \/ ScanEnds \/ ListingEnds
    \/ \E d \in Directories : ValidateCandidate(d) \/ Vanish(d) \/ Appear(d)

BrowseNext ==
    \/ ReadDirectory \/ LookAtEntry \/ LookAgain \/ BrowsingEnds
    \/ \E n \in Names : ReplaceEntry(n)

QueriesSpec == QueriesInit /\ [][ListNext \/ BrowseNext]_queryVars

-----------------------------------------------------------------------------
(* Properties.                                                             *)

SessionsIn(d) == {i \in Sessions : Canonical[records[i].cwd] = d}
LastIn(d) == Maximum({records[i].time : i \in SessionsIn(d)})

(***************************************************************************)
(* The known projects, however the sessions of a project are spelled and   *)
(* whatever the limits cut off: each is there with the time of its latest  *)
(* session, at most MaxProjects of them, and no project that is left out   *)
(* is more recent than one that is listed, unless its directory went.      *)
(* Only of a directory that came while the listing ran may sessions be     *)
(* missed.                                                                 *)
(***************************************************************************)
KnownProjectsRight ==
    listing.phase = "answered" =>
        /\ Cardinality(listing.candidates) <= MaxProjects
        /\ \A d \in listing.candidates \ came :
              /\ listing.grouped[d].last = LastIn(d)
              /\ Cardinality(Sessions) <= ScanLimit =>
                    listing.grouped[d].count = Cardinality(SessionsIn(d))
              /\ \A e \in (there \ came) \ listing.candidates :
                    SessionsIn(e) # {} => LastIn(e) <= LastIn(d)

FirstOf(S, n) == {x \in S : Cardinality({y \in S : y < x}) < n}

(***************************************************************************)
(* A directory that nobody changes is listed as it is: its first           *)
(* MaxChildren directories by name, and truncated exactly if it has more.  *)
(***************************************************************************)
ListedAsItIs ==
    /\ browsing.phase = "answered" /\ \A n \in Names : entries[n].file = 0
    => LET children == {n \in Names : entries[n].kind \in {"directory", "link"}} IN
       /\ browsing.children = FirstOf(children, MaxChildren)
       /\ (browsing.found > Cardinality(browsing.children)) =
                (Cardinality(children) > MaxChildren)
=============================================================================
