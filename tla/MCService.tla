------------------------------ MODULE MCService ------------------------------
(* TLC instances of Service: a worker with a standalone admin server, a     *)
(* service with two servers, and one with the admin handler mounted.        *)
EXTENDS Service, Safego

CONSTANTS r1, k1

OneRunner   == {r1}
OneStopper  == {k1}

NoSources == [g \in Groups |-> FALSE]
Tasks     == [NoSources EXCEPT !["tasks"] = TRUE]

HttpServer(h, crit) == [whole |-> FALSE, addr |-> ":1", handler |-> h, critical |-> crit]

AdminSpec ==
  [readGuard |-> "read", writeGuard |-> "write", sources |-> {}, writes |-> {"tasks"},
   provided |-> FALSE, readyChecks |-> <<[name |-> "db", func |-> TRUE]>>,
   tuningRead |-> Adm!AnyKey, tuningWrite |-> Adm!AnyKey,
   taskRead |-> Adm!AnyKey, taskWrite |-> [Adm!AnyKey EXCEPT !.keys = <<"job">>]]

Plain(primary, extra) ==
  [source |-> NoSources, expose |-> NoSources, admin |-> NoAdmin, mountPrefix |-> <<>>,
   primary |-> primary, extra |-> extra, standalone |-> NoServer]

\* Tasks of its own, a critical server and the admin server, whose failure is only reported.
Worker ==
  [Plain(HttpServer("app", ""), <<>>) EXCEPT
     !.source = Tasks, !.admin = AdminSpec, !.standalone = HttpServer("none", "false")]

\* Two servers, one of them critical, and no tasks.
TwoServers == Plain(HttpServer("app", ""), <<HttpServer("app", "false")>>)

\* The admin handler brings a task manager the service does not manage.
MountedAdmin ==
  [Plain(HttpServer("app", ""), <<>>) EXCEPT !.admin = [AdminSpec EXCEPT !.sources = {"tasks"}],
                                              !.mountPrefix = <<"admin">>]

ThreeSpecs == {Worker, TwoServers, MountedAdmin}

\* ?admin
MCBadPrefixes == {<<"?admin">>}

\* What NewDefaultService refuses of the specs above, each with one thing wrong: prefixes, a prefix
\* beside a server for the admin, no primary to mount on, a write without a source, and what
\* NewDefaultAdmin refuses: no read guard, two ways to name tasks, a check without a name.  An
\* access list of a group that is not served is not looked at.
ASSUME RefusedAssumption ==
  /\ \A sp \in ThreeSpecs : ~Refused(sp) /\ ~Refused([sp EXCEPT !.admin = NoAdmin, !.standalone = NoServer])
  /\ \A prefix \in {<<"?admin">>, <<"", "">>, <<"a", "", "b">>} :
       Refused([MountedAdmin EXCEPT !.mountPrefix = prefix])
  /\ \A prefix \in {<<>>, <<"">>, <<"a", "">>} : ~Refused([MountedAdmin EXCEPT !.mountPrefix = prefix])
  /\ Refused([Worker EXCEPT !.mountPrefix = <<"admin">>])
  /\ Refused([Worker EXCEPT !.standalone = NoServer, !.primary = NoServer])
  /\ Refused([MountedAdmin EXCEPT !.admin.sources = {}, !.expose = Tasks])
  /\ \A sp \in {Worker, MountedAdmin} :
       LET both == [func |-> {"job"}, prefixes |-> <<>>, keys |-> <<"job">>]
       IN /\ Refused([sp EXCEPT !.admin.readGuard = Nobody])
          /\ Refused([sp EXCEPT !.admin.taskWrite = both])
          /\ Refused([sp EXCEPT !.admin.taskRead = both])
          /\ Refused([sp EXCEPT !.admin.readyChecks = <<[name |-> "", func |-> TRUE]>>])
          /\ ~Refused([sp EXCEPT !.admin.tuningRead = both])
          /\ ~Refused([sp EXCEPT !.admin.taskWrite = both, !.admin.writeGuard = Nobody])

ASSUME SafegoAssumption ==
  /\ \A c \in Configs({<<>>, <<"panics", "returns", "panics">>}), o \in Outcomes :
       NothingLost(c, o)
  /\ \A c \in Configs({<<>>}) :
       (GoErr(c, "panic").escapes = "crash") = (c.panicPolicy = "RepanicAfterReport")
=============================================================================
