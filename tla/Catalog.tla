------------------------------- MODULE Catalog -------------------------------
(* The entry of a release in Lidarr's catalogue (Catalog.EnsureRelease), that *)
(* the worker makes before an import and the migration before it submits: the *)
(* artist is added without monitoring anything, Lidarr refreshes what it      *)
(* knows of the artist, and the album of the release is monitored.            *)
(*                                                                           *)
(* Each request to Lidarr is one action.  The releases are of one artist;     *)
(* callers run at the same time and meet the operator, who edits albums in    *)
(* Lidarr's own pages, and Lidarr's refreshes.                               *)
EXTENDS Integers, FiniteSets

CONSTANTS
  Callers,       \* goroutines that ensure releases
  AlbumOf,       \* the album of each release
  Profiles,      \* ids of quality profiles
  PollAttempts,  \* how often a caller looks after its refresh
  MaxMishaps     \* bound: failed calls, lost answers, edits and withdrawals

Releases == DOMAIN AlbumOf
Albums == {AlbumOf[r] : r \in Releases}

ASSUME CatalogAssumption ==
  /\ Profiles \subseteq Nat \ {0} /\ PollAttempts \in Nat \ {0} /\ MaxMishaps \in Nat

VARIABLES
  defaults,  \* [preferred, available]: the root folder's profile, and those there are
  artist,    \* [there, profile, watched]: watched is monitorNewItems
  known,     \* releases that Lidarr knows
  monitored, \* album -> whether Lidarr monitors it
  ensure,    \* caller -> where its EnsureRelease is, and what it holds
  \* history and environment
  asked,     \* releases that were asked for
  wished,    \* albums that the operator monitors
  mishaps
lidarrCatalogVars == <<defaults, artist, known, monitored>>
catalogVars == <<lidarrCatalogVars, ensure, asked, wished, mishaps>>

AtRest == [pc |-> "rest", release |-> "none", profile |-> 0, monitored |-> FALSE,
           polls |-> 0, disturbed |-> FALSE]
NoArtist == [there |-> FALSE, profile |-> 0, watched |-> FALSE]

CatalogFresh ==
  /\ known = {} /\ monitored = [a \in Albums |-> FALSE]
  /\ ensure = [c \in Callers |-> AtRest]
  /\ asked = {} /\ wished = {} /\ mishaps = 0

\* An artist that Lidarr has was added by the operator, without new albums.
CatalogInit ==
  /\ \E preferred \in Profiles \union {0}, available \in SUBSET Profiles :
       /\ defaults = [preferred |-> preferred, available |-> available]
       /\ artist \in {NoArtist} \union
            {[there |-> TRUE, profile |-> p, watched |-> FALSE] : p \in available}
  /\ CatalogFresh
\* A catalogue nothing happens to.
CatalogIdle ==
  /\ defaults = [preferred |-> 0, available |-> {}] /\ artist = NoArtist
  /\ CatalogFresh

-----------------------------------------------------------------------------
(* EnsureRelease *)

Mishap == mishaps < MaxMishaps /\ mishaps' = mishaps + 1
Reaches(c, pc) == ensure' = [ensure EXCEPT ![c].pc = pc]
Gives(c) == ensure' = [ensure EXCEPT ![c] = AtRest]
Asks(c, pc) == ensure[c].pc = pc
\* nothing but the caller's own progress
OnlyCaller == UNCHANGED <<lidarrCatalogVars, asked, wished, mishaps>>

\* a request that was carried out is answered, or its answer is lost
EndsOrLost(c, pc) ==
  \/ Reaches(c, pc) /\ UNCHANGED mishaps
  \/ Gives(c) /\ Mishap

\* usableProfile: the preferred one, or without a preference the only one
UsableProfile ==
  IF defaults.preferred \in defaults.available THEN defaults.preferred
  ELSE IF defaults.preferred = 0 /\ Cardinality(defaults.available) = 1
    THEN CHOOSE p \in defaults.available : TRUE
    ELSE 0

EnsureRelease(c, r) ==
  /\ ensure[c].pc \in {"rest", "done"}
  /\ ensure' = [ensure EXCEPT ![c] = [AtRest EXCEPT !.pc = "defaults", !.release = r]]
  /\ asked' = asked \union {r}
  /\ UNCHANGED <<lidarrCatalogVars, wished, mishaps>>

CatalogDefaults(c) ==
  /\ Asks(c, "defaults")
  /\ \/ UsableProfile # 0
        /\ ensure' = [ensure EXCEPT ![c].pc = "lookup", ![c].profile = UsableProfile]
     \/ UsableProfile = 0 /\ Gives(c)
  /\ OnlyCaller

\* an artist that Lidarr has keeps its profile
LookupArtist(c) ==
  /\ Asks(c, "lookup")
  /\ ensure' = [ensure EXCEPT ![c].pc = "existing",
                              ![c].profile = IF artist.there THEN artist.profile ELSE @]
  /\ OnlyCaller

ExistingArtist(c) ==
  /\ Asks(c, "existing")
  /\ Reaches(c, IF artist.there THEN "find" ELSE "add")
  /\ OnlyCaller

\* Mutant: the albums that come with the artist are monitored.
AddedWatching(profile) == [there |-> TRUE, profile |-> profile, watched |-> TRUE]
Added(profile) == [there |-> TRUE, profile |-> profile, watched |-> FALSE]

\* Lidarr refuses an artist that it has; an answer may be lost.
AddArtist(c) ==
  /\ Asks(c, "add")
  /\ \/ ~artist.there /\ artist' = Added(ensure[c].profile)
        /\ EndsOrLost(c, "find")
     \/ artist.there /\ Gives(c) /\ UNCHANGED <<artist, mishaps>>
  /\ UNCHANGED <<defaults, known, monitored, asked, wished>>

\* findRelease: the album is held as it was read
FindRelease(c) ==
  LET r == ensure[c].release
  IN  /\ ensure[c].pc \in {"find", "again"}
      /\ \/ r \in known
            /\ ensure' = [ensure EXCEPT ![c].pc = "monitor", ![c].monitored = monitored[AlbumOf[r]]]
         \/ r \notin known /\ Asks(c, "find") /\ Reaches(c, "refresh")
         \/ r \notin known /\ Asks(c, "again")
            /\ IF ensure[c].polls + 1 < PollAttempts
                 THEN ensure' = [ensure EXCEPT ![c].polls = @ + 1]
                 ELSE Gives(c)
      /\ OnlyCaller

\* the command to Lidarr is polled until it is completed, which it may be at once
RefreshArtist(c) ==
  /\ Asks(c, "refresh") /\ Reaches(c, "refreshing")
  /\ OnlyCaller
PollRefresh(c) ==
  /\ Asks(c, "refreshing")
  /\ Reaches(c, "again") \/ Gives(c)
  /\ OnlyCaller

\* only an album that was read without monitoring is written
MonitorAlbum(c) ==
  /\ Asks(c, "monitor")
  /\ \/ ensure[c].monitored /\ Reaches(c, "verify") /\ UNCHANGED <<monitored, mishaps>>
     \/ /\ ~ensure[c].monitored
        /\ monitored' = [monitored EXCEPT ![AlbumOf[ensure[c].release]] = TRUE]
        /\ EndsOrLost(c, "verify")
  /\ UNCHANGED <<defaults, artist, known, asked, wished>>

\* Mutant: the release of the answer is not looked for.
ShownMonitored(c) == monitored[AlbumOf[ensure[c].release]]
Shown(c) == ShownMonitored(c) /\ ensure[c].release \in known

VerifyAlbum(c) ==
  /\ Asks(c, "verify")
  /\ \/ /\ Shown(c)
        /\ ensure' = [ensure EXCEPT ![c].pc = "done", ![c].disturbed = FALSE]
     \/ ~Shown(c) /\ Gives(c)
  /\ OnlyCaller

CallFails(c) ==
  /\ ensure[c].pc \notin {"rest", "done"} /\ Mishap /\ Gives(c)
  /\ UNCHANGED <<lidarrCatalogVars, asked, wished>>

-----------------------------------------------------------------------------
(* Lidarr and the operator *)

\* A refresh brings releases of the artist; their albums are monitored only if
\* the artist's new items are.
LidarrRefreshes ==
  /\ artist.there
  /\ \E r \in Releases \ known :
       /\ known' = known \union {r}
       /\ monitored' = [monitored EXCEPT ![AlbumOf[r]] = @ \/ artist.watched]
  /\ UNCHANGED <<defaults, artist, ensure, asked, wished, mishaps>>

Disturbed(calls, hit) ==
  [c \in Callers |-> IF hit[c] THEN [calls[c] EXCEPT !.disturbed = TRUE] ELSE calls[c]]

\* MusicBrainz has merged a release into another.
Withdraw(r) ==
  /\ r \in known /\ Mishap
  /\ known' = known \ {r}
  /\ ensure' = Disturbed(ensure, [c \in Callers |-> ensure[c].release = r])
  /\ UNCHANGED <<defaults, artist, monitored, asked, wished>>

EditAlbum(a) ==
  /\ \E r \in known : AlbumOf[r] = a
  /\ Mishap
  /\ \/ monitored' = [monitored EXCEPT ![a] = TRUE] /\ wished' = wished \union {a}
     \/ monitored' = [monitored EXCEPT ![a] = FALSE] /\ wished' = wished \ {a}
  /\ ensure' = Disturbed(ensure, [c \in Callers |->
                  ensure[c].release \in Releases /\ AlbumOf[ensure[c].release] = a])
  /\ UNCHANGED <<defaults, artist, known, asked>>

CallerStep(c) ==
  \/ CatalogDefaults(c) \/ LookupArtist(c) \/ ExistingArtist(c) \/ AddArtist(c)
  \/ FindRelease(c) \/ RefreshArtist(c) \/ PollRefresh(c)
  \/ MonitorAlbum(c) \/ VerifyAlbum(c) \/ CallFails(c)
CatalogNext ==
  \/ \E c \in Callers : CallerStep(c) \/ \E r \in Releases : EnsureRelease(c, r)
  \/ LidarrRefreshes
  \/ \E r \in Releases : Withdraw(r)
  \/ \E a \in Albums : EditAlbum(a)
CatalogSpec == CatalogInit /\ [][CatalogNext]_catalogVars

-----------------------------------------------------------------------------
\* A release that was ensured is in the catalogue under a monitored album, until
\* the operator or MusicBrainz changes that; the artist it brought has a profile
\* that exists; and no album is monitored that nobody asked for or that the
\* operator does not monitor himself, so nothing else is ever acquired.
CatalogAsAsked ==
  /\ \A c \in Callers : ensure[c].pc = "done" /\ ~ensure[c].disturbed =>
       /\ artist.there /\ ensure[c].release \in known
       /\ monitored[AlbumOf[ensure[c].release]]
  /\ artist.there => artist.profile \in defaults.available
  /\ \A a \in Albums : monitored[a] => a \in wished \/ \E r \in asked : AlbumOf[r] = a
=============================================================================
