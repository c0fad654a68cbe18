----------------------------- MODULE MCMachine -----------------------------
(***************************************************************************)
(* Documents that are absent, malformed, out of range at either end of     *)
(* each bound, and good ones: the web UI off, on its port, on the KMS      *)
(* port.  A power button, a console and a pipe of one line.                *)
(***************************************************************************)
EXTENDS Machine

MCDefaults == [capacity |-> 2, days |-> 2, port |-> 8080, web |-> TRUE]

Document(form, capacity, days, port, web) ==
    [form |-> form, capacity |-> capacity, days |-> days, port |-> port, web |-> web]

Absent == Document("absent", {}, {}, {}, {})

MCDocuments ==
    { Absent, Document("malformed", {}, {}, {}, {}),
      Document("toml", {0}, {}, {}, {}), Document("toml", {}, {MaxDays + 1}, {}, {}),
      Document("toml", {MaxCapacity}, {}, {}, {FALSE}), Document("toml", {}, {}, {1688}, {}) }

\* The image is alone on its machine; a hosted program is not.
MCHosts ==
    { [platform |-> "init", documents |-> {Absent}, shared |-> FALSE],
      [platform |-> "service", documents |-> MCDocuments, shared |-> TRUE],
      [platform |-> "console", documents |-> MCDocuments, shared |-> TRUE] }
MCOpens == <<"guest-sync", "guest-sync-delimited">>

=============================================================================
