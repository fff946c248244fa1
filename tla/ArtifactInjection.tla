-------------------------- MODULE ArtifactInjection --------------------------
(***************************************************************************)
(* The artifact extension (service-simulation-module/artifact-extension):  *)
(* before a sample runs, entrypoint.py feeds background events to three    *)
(* extensions through the ArtifactManager, which then have their artifacts *)
(* written to a Docker volume: a DNS cache, a browser history with the     *)
(* marks of downloads, and the files of a Linux host.                      *)
(*                                                                         *)
(* The container may be killed at any point and started again on the same  *)
(* volume; writing a file may fail, and only that extension is given up.   *)
(***************************************************************************)
EXTENDS Integers, Sequences, FiniteSets, SequencesExt

CONSTANTS
    Events,       \* what _emit_background_events dispatches, in order
    Profile,      \* UserProfile: [entries, negative, jitter, history, days]
    Sites,        \* _BACKGROUND_URLS
    Identities,   \* _IDENTITY_POOL
    LinuxFiles,   \* the files of LinuxArtifactExtension, in order
    HomeFiles,    \* those of them under home/<username>
    Now,          \* time.time() when artifacts are injected
    Micro,        \* microseconds in the unit of time
    ChromeOffset, \* _CHROME_EPOCH_OFFSET_US
    None,         \* nothing there
    MaxFailures   \* bound on kills and failed writes

(* The numbers of DNS and history entries a profile asks for, the most a time
   to live may be, and the days the history goes back.  A profile is read from
   JSON unchecked. *)
UserProfile == [entries : Nat, negative : Nat, jitter : Int, history : Nat, days : Nat]

(* The entries of the DNS cache. *)
DnsCache ==
    [positive : Nat, negative : Nat, queries : Seq({Events[i].name : i \in DOMAIN Events})]

(* Rows of the history database: each url with its visits, and the visits. *)
Urls == Sites \cup {Events[i].name : i \in DOMAIN Events}

HistoryDb ==
    [urls : UNION {[S -> [count : Nat, last : Int]] : S \in SUBSET Urls},
     visits : Seq([url : Urls, time : Int])]

(* Where a file of the host is: a file of the user's home has a path for each
   identity, any other file has one path. *)
PathOf(f, i) == [file |-> f, home |-> IF f \in HomeFiles THEN i ELSE None]

Paths == {PathOf(f, i) : f \in ToSet(LinuxFiles), i \in Identities}

ASSUME ArtifactAssumption ==
    /\ Profile \in UserProfile
    /\ Events \in Seq(ToSet(Events))
    /\ LinuxFiles \in Seq(ToSet(LinuxFiles))
    /\ None \notin DnsCache \cup HistoryDb \cup Identities
    /\ \A i \in DOMAIN Events :
        /\ Events[i].type \in {"dns_query", "http_request", "file_download"}
        /\ Events[i].time \in 0 .. Now
    /\ Now \in Nat /\ Profile.days <= Now
    /\ Micro \in Nat /\ ChromeOffset \in Int
    /\ MaxFailures \in Nat

VARIABLES
    entry,    \* entrypoint.py: [pc, at, identity, failed]
    seen,     \* the events each extension has captured
    volume,   \* the artifacts
    boots,    \* starts of the container; the one that wrote a machine-id
    failures  \* kills and failed writes so far

artifactVars == <<entry, seen, volume, boots, failures>>

Torn == [torn |-> TRUE]

NothingSeen == [dns |-> << >>, http |-> << >>, downloads |-> << >>]

Started == [pc |-> "emit", at |-> 1, identity |-> None, failed |-> {}]

ArtifactInit ==
    /\ entry = Started
    /\ seen = NothingSeen
    /\ volume = [dns |-> None, history |-> None, zones |-> << >>,
                 linux |-> [p \in Paths |-> None]]
    /\ boots = 1
    /\ failures = 0

EntryGoto(pc) == entry' = [entry EXCEPT !.pc = pc, !.at = 1]

-----------------------------------------------------------------------------
(* ArtifactManager.dispatch *)

(* A time to live is drawn from 30 .. jitter: below 30 randint raises, which
   dispatch logs, and the query is not captured. *)
DnsEvent(e) ==
    IF e.type = "dns_query" /\ e.name # None /\ Profile.jitter >= 30
    THEN Append(seen.dns, e.name) ELSE seen.dns

HttpEvent(e) ==
    IF e.type = "http_request" THEN Append(seen.http, [url |-> e.name, time |-> e.time])
    ELSE seen.http

DownloadEvent(e) ==
    IF e.type = "file_download" THEN Append(seen.downloads, [file |-> e.name, host |-> e.host])
    ELSE seen.downloads

(* Every extension is offered the event and takes what it owns. *)
dispatch ==
    /\ entry.pc = "emit" /\ entry.at <= Len(Events)
    /\ LET e == Events[entry.at]
       IN  seen' = [dns |-> DnsEvent(e), http |-> HttpEvent(e), downloads |-> DownloadEvent(e)]
    /\ entry' = [entry EXCEPT !.at = @ + 1]
    /\ UNCHANGED <<volume, boots, failures>>

BeginInject ==
    /\ entry.pc = "emit" /\ entry.at > Len(Events)
    /\ EntryGoto("dns")
    /\ UNCHANGED <<seen, volume, boots, failures>>

-----------------------------------------------------------------------------
(* DNSArtifactExtension.inject *)

AtLeast(n, m) == IF n < m THEN m ELSE n

(* Positive entries fill up to the profile's number, at least one negative
   entry follows, and the captured queries come last. *)
_build_entries ==
    [positive |-> AtLeast(Profile.entries - Len(seen.dns), 0),
     negative |-> AtLeast(Profile.negative, 1),
     queries |-> seen.dns]

(* A negative or zero jitter makes randint raise. *)
InjectDns ==
    LET raises == _build_entries.positive > 0 /\ Profile.jitter < 1
    IN  /\ entry.pc = "dns"
        /\ volume' = IF raises THEN volume ELSE [volume EXCEPT !.dns = _build_entries]
        /\ entry' = [entry EXCEPT !.pc = "unlink", !.failed = IF raises THEN @ \cup {"dns"} ELSE @]
        /\ UNCHANGED <<seen, boots, failures>>

-----------------------------------------------------------------------------
(* HTTPArtifactExtension.inject *)

_unix_to_chrome_time(t) == t * Micro + ChromeOffset

NoHistory == [urls |-> << >>, visits |-> << >>]

Visit(e) == [url |-> e.url, time |-> _unix_to_chrome_time(e.time)]

\* Mutant: a url seen before is not counted again.
WriteEntryOnce(db, e) ==
    LET first == [count |-> 1, last |-> Visit(e).time]
    IN  [urls |-> [u \in DOMAIN db.urls \cup {e.url} |->
                    IF u \in DOMAIN db.urls THEN db.urls[u] ELSE first],
         visits |-> Append(db.visits, Visit(e))]

(* A first visit inserts the url; later ones count on it. *)
WriteEntry(db, e) ==
    LET t == Visit(e).time
        Row(u) == IF u \notin DOMAIN db.urls THEN [count |-> 1, last |-> t]
                  ELSE IF u = e.url
                  THEN [count |-> db.urls[u].count + 1, last |-> AtLeast(db.urls[u].last, t)]
                  ELSE db.urls[u]
    IN  [urls |-> [u \in DOMAIN db.urls \cup {e.url} |-> Row(u)],
         visits |-> Append(db.visits, Visit(e))]

(* sorted, by time: of the entries that are left the earliest is next, the first
   in the list of those of one time. *)
NextEntry(entries, left) ==
    CHOOSE i \in left : \A j \in left :
        entries[i].time < entries[j].time \/ (entries[i].time = entries[j].time /\ i <= j)

_write_entries(entries) ==
    LET rows[n \in 0 .. Len(entries)] ==
            IF n = 0 THEN [db |-> NoHistory, left |-> DOMAIN entries]
            ELSE LET i == NextEntry(entries, rows[n - 1].left)
                 IN  [db |-> WriteEntry(rows[n - 1].db, entries[i]),
                      left |-> rows[n - 1].left \ {i}]
    IN  rows[Len(entries)].db

(* Visits of well-known sites, at most days ago, fill up to the profile's
   number; the captured requests follow. *)
Background == AtLeast(Profile.history - Len(seen.http), 0)

_build_history_entries ==
    {b \o seen.http :
        b \in [1 .. Background -> [url : Sites, time : (Now - Profile.days) .. Now]]}

HistoryUnlink ==
    /\ entry.pc = "unlink"
    /\ volume' = [volume EXCEPT !.history = None]
    /\ EntryGoto("schema")
    /\ UNCHANGED <<seen, boots, failures>>

_create_schema ==
    /\ entry.pc = "schema"
    /\ volume' = [volume EXCEPT !.history = NoHistory]
    /\ EntryGoto("rows")
    /\ UNCHANGED <<seen, boots, failures>>

(* The age of a visit is drawn with the rate 1 / mean_age: a profile of no days
   divides by zero. *)
AgeRaises == Profile.days = 0 /\ Background > 0

(* All rows are one transaction. *)
_inject_history ==
    /\ entry.pc = "rows"
    /\ IF AgeRaises THEN UNCHANGED volume
       ELSE \E entries \in _build_history_entries :
                volume' = [volume EXCEPT !.history = _write_entries(entries)]
    /\ entry' = [entry EXCEPT !.pc = IF AgeRaises THEN "linux" ELSE "zones", !.at = 1,
                              !.failed = IF AgeRaises THEN @ \cup {"http"} ELSE @]
    /\ UNCHANGED <<seen, boots, failures>>

(* The Zone.Identifier of a download.  The events name the referrer
   "referrer_url" and the extension reads "referrer": it is always empty. *)
ZoneIdentifier(d) == [host |-> d.host, referrer |-> None]

WriteZone(zones, file, text) ==
    [f \in DOMAIN zones \cup {file} |-> IF f = file THEN text ELSE zones[f]]

(* A placeholder and its Zone.Identifier for each download. *)
_inject_zone_identifiers ==
    /\ entry.pc = "zones" /\ entry.at <= Len(seen.downloads)
    /\ LET d == seen.downloads[entry.at]
       IN  volume' = [volume EXCEPT !.zones = WriteZone(@, d.file, ZoneIdentifier(d))]
    /\ entry' = [entry EXCEPT !.at = @ + 1]
    /\ UNCHANGED <<seen, boots, failures>>

ZonesWritten ==
    /\ entry.pc = "zones" /\ entry.at > Len(seen.downloads)
    /\ EntryGoto("linux")
    /\ UNCHANGED <<seen, volume, boots, failures>>

-----------------------------------------------------------------------------
(* LinuxArtifactExtension.inject *)

ChooseIdentity ==
    /\ entry.pc = "linux"
    /\ \E i \in Identities : entry' = [entry EXCEPT !.pc = "files", !.at = 1, !.identity = i]
    /\ UNCHANGED <<seen, volume, boots, failures>>

(* Each file holds what the identity says, the two machine-ids the token of
   this start. *)
Rendered == [identity |-> entry.identity, boot |-> boots]

(* The path of the file at hand. *)
FilePath == PathOf(LinuxFiles[entry.at], entry.identity)

_write_text ==
    /\ entry.pc = "files" /\ entry.at <= Len(LinuxFiles)
    /\ volume' = [volume EXCEPT !.linux[FilePath] = Rendered]
    /\ entry' = [entry EXCEPT !.at = @ + 1]
    /\ UNCHANGED <<seen, boots, failures>>

(* The process ends, and what it held in memory. *)
FilesWritten ==
    /\ entry.pc = "files" /\ entry.at > Len(LinuxFiles)
    /\ entry' = [entry EXCEPT !.pc = "done", !.at = 1, !.identity = None]
    /\ seen' = NothingSeen
    /\ UNCHANGED <<volume, boots, failures>>

-----------------------------------------------------------------------------
(* Failures. *)

ExtensionOf ==
    CASE entry.pc = "dns" -> "dns"
      [] entry.pc \in {"unlink", "schema", "rows", "zones"} -> "http"
      [] entry.pc \in {"linux", "files"} -> "linux"

AfterExtension == [dns |-> "unlink", http |-> "linux", linux |-> "done"]

Injecting == entry.pc \notin {"emit", "done", "exited"}

(* A write that does not end may leave its file truncated. *)
Interrupted ==
    \/ UNCHANGED volume
    \/ entry.pc = "dns" /\ volume' = [volume EXCEPT !.dns = Torn]
    \/ /\ entry.pc = "zones" /\ entry.at <= Len(seen.downloads)
       /\ volume' = [volume EXCEPT !.zones = WriteZone(@, seen.downloads[entry.at].file, Torn)]
    \/ /\ entry.pc = "files" /\ entry.at <= Len(LinuxFiles)
       /\ volume' = [volume EXCEPT !.linux[FilePath] = Torn]

\* Mutant: the first extension that fails ends the injection.
inject_all_stops ==
    /\ Injecting /\ failures < MaxFailures
    /\ failures' = failures + 1
    /\ entry' = [entry EXCEPT !.pc = "done", !.failed = @ \cup {ExtensionOf}]
    /\ Interrupted
    /\ UNCHANGED <<seen, boots>>

\* Mutant: the exception is raised again, and entrypoint.py exits with it.
inject_all_raises ==
    /\ Injecting /\ failures < MaxFailures
    /\ failures' = failures + 1
    /\ entry' = [entry EXCEPT !.pc = "exited"]
    /\ Interrupted
    /\ UNCHANGED <<seen, boots>>

(* inject raises: inject_all logs it and goes on with the next extension. *)
inject_all ==
    /\ Injecting /\ failures < MaxFailures
    /\ failures' = failures + 1
    /\ entry' = [entry EXCEPT !.pc = AfterExtension[ExtensionOf], !.at = 1,
                              !.failed = @ \cup {ExtensionOf}]
    /\ Interrupted
    /\ UNCHANGED <<seen, boots>>

(* The container is killed, or its work done, and it is started again. *)
Restart ==
    /\ failures < MaxFailures
    /\ failures' = failures + 1
    /\ boots' = boots + 1
    /\ entry' = Started
    /\ seen' = NothingSeen
    /\ Interrupted

InjectStep ==
    \/ dispatch \/ BeginInject
    \/ InjectDns
    \/ HistoryUnlink \/ _create_schema \/ _inject_history
    \/ _inject_zone_identifiers \/ ZonesWritten
    \/ ChooseIdentity \/ _write_text \/ FilesWritten

ArtifactNext == InjectStep \/ inject_all \/ Restart

-----------------------------------------------------------------------------
(* Properties. *)

EventNames(type) == {Events[i].name : i \in {j \in DOMAIN Events : Events[j].type = type}}

(* The events there are of one type. *)
EventCount(type) == Cardinality({j \in DOMAIN Events : Events[j].type = type})

\* _inject_history and _write_entries: through kills, failures and restarts the
\* history database is absent, empty, or whole, and whole when the sample starts
\* unless that extension failed: as many visits as the profile asks for and every
\* captured request among them, in the order of their times, and each url counts
\* its visits and knows the last.
HistoryWhole ==
    (entry.pc = "done" /\ "http" \notin entry.failed) \/ volume.history \notin {None, NoHistory} =>
        LET db == volume.history
            OfUrl(u) == {i \in DOMAIN db.visits : db.visits[i].url = u}
        IN  /\ db # None
            /\ Len(db.visits) = AtLeast(Profile.history, EventCount("http_request"))
            /\ \A i, j \in DOMAIN db.visits : i < j => db.visits[i].time <= db.visits[j].time
            /\ EventNames("http_request") \subseteq DOMAIN db.urls
            /\ \A u \in DOMAIN db.urls :
                /\ db.urls[u].count = Cardinality(OfUrl(u))
                /\ db.urls[u].last \in {db.visits[i].time : i \in OfUrl(u)}
                /\ \A i \in OfUrl(u) : db.visits[i].time <= db.urls[u].last

\* "Isolate extension failures so one bad extension cannot block others"
\* (manager.py): when the sample starts, the artifacts of every extension that
\* did not fail are complete and of one piece, whatever a killed container left
\* in the volume: no download and no query that names a domain is missing, and
\* none of their files is torn.  All files of the host and all of the user's home
\* belong to one identity and one start, both machine-ids included.  The home of
\* another identity is not removed: what it holds, whole or torn, is left by an
\* earlier start, and never by this one.
ArtifactsWhole ==
    entry.pc = "done" =>
        /\ "dns" \notin entry.failed =>
            /\ volume.dns \notin {None, Torn}
            /\ Profile.jitter >= 30 => ToSet(volume.dns.queries) = EventNames("dns_query") \ {None}
        /\ "http" \notin entry.failed =>
            \A f \in EventNames("file_download") :
                f \in DOMAIN volume.zones /\ volume.zones[f] # Torn
        /\ "linux" \notin entry.failed =>
            \E i \in Identities :
                /\ \A f \in ToSet(LinuxFiles) :
                    volume.linux[PathOf(f, i)] = [identity |-> i, boot |-> boots]
                /\ \A p \in Paths : p.home \notin {i, None} =>
                    \/ volume.linux[p] \in {None, Torn}
                    \/ volume.linux[p] \in [identity : {p.home}, boot : 1 .. boots - 1]

=============================================================================
