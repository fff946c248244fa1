------------------------- MODULE MCServiceSimulation -------------------------
(* A small instance of ServiceSimulation for TLC. *)
EXTENDS ServiceSimulation

\* One event of each kind, the browsed page one of the well-known sites.
SmallEvents ==
    <<[type |-> "dns_query", name |-> "github.com", time |-> 1],
      [type |-> "http_request", name |-> "https://github.com/", time |-> 2],
      [type |-> "file_download", name |-> "setup.exe", time |-> 2, host |-> "https://github.com/"]>>

\* Room for one visit besides the event's.
SmallProfile == [entries |-> 3, negative |-> 0, jitter |-> 60, history |-> 2, days |-> 1]

\* Both machine-ids, and a file of the user's home.
SmallFiles == <<"machine-id", "dbus/machine-id", ".bash_history">>

Sh(path, patterns) ==
    [route |-> "catch_all", data |-> TRUE, url |-> "u", path |-> path, method |-> "GET",
     multipart |-> FALSE, octets |-> FALSE, patterns |-> patterns]

\* An attack, and one executable url at each risk; /analyze with and
\* without a body.
SmallShapes ==
    {Sh({"auth"}, {"cmd"}),
     Sh({"executable", "dot"}, {}), Sh({"executable", "dot"}, {"eval"}),
     Sh({"executable", "dot"}, {"exec"}),
     [Sh({}, {}) EXCEPT !.route = "analyze"],
     [Sh({}, {}) EXCEPT !.route = "simulate", !.data = FALSE]}
=============================================================================
