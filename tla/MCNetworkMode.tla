---------------------------- MODULE MCNetworkMode ----------------------------
(* Small instances of the network mode controller. *)
EXTENDS NetworkMode

CONSTANTS c1, c2   \* callers

Packet(prefix, port, path, domain, size) ==
    [prefix |-> prefix, port |-> port, path |-> path, domain |-> domain, size |-> size,
     transport |-> "TCP", dns |-> FALSE, auth |-> TRUE, ctype |-> "", source |-> "sample"]

Upload   == Packet("POST", 80, "/", "other", Large)
Download == Packet("GET ", 80, "/a.exe", "other", 1)
Beacon   == Packet("POST", 443, "/", "c2", 1)

SomePackets == {Upload, Download, Beacon}

SomeRules ==
    {Rule("block_uploads", 95, Cond("domain_pattern", {"other"}, "", 0), "block", "none"),
     Rule("forward_all", 50, Cond("default", {}, "", 0), "forward", "none")}

Complete ==
    [services |-> TRUE, halfEnabled |-> TRUE, proxy |-> TRUE, defaultAction |-> "simulate",
     transparentEnabled |-> TRUE, modifier |-> "on", stripAuth |-> TRUE,
     injectTracking |-> FALSE, sandbox |-> TRUE, extract |-> TRUE,
     supported |-> {"HTTP", "DNS", "SMTP", "FTP"}, logConnections |-> TRUE,
     logAll |-> TRUE, logDecisions |-> TRUE]

SomeConfigs ==
    {Complete,
     [Complete EXCEPT !.modifier = "nil", !.services = FALSE, !.transparentEnabled = FALSE,
                      !.logDecisions = FALSE]}

OneConfig == {Complete}
=============================================================================
