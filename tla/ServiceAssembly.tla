--------------------------- MODULE ServiceAssembly ---------------------------
(***************************************************************************)
(* What NewDefaultService makes of a ServiceSpec: which log level, tuning  *)
(* and task manager instance it uses, what it refuses with a panic, which  *)
(* servers it manages and in which order, and how an admin handler mounted *)
(* under a prefix shares the primary server.                               *)
(*                                                                         *)
(* A spec keeps what the decisions read: which sources are given           *)
(* (sp.source[g]) and exposed (sp.expose[g]), the servers, the mount       *)
(* prefix, and the admin spec, which is one of AdminAssembly.              *)
(***************************************************************************)
EXTENDS Sequences, SequencesExt

CONSTANTS NoAdmin,      \* ServiceSpec.Admin is nil
          NoServer,     \* a nil *HTTPServerSpec
          BadPrefixes,  \* prefixes without a leading slash, or with blanks, ? or #
          Nobody, NoFunc, BadPaths   \* AdminAssembly's

Adm == INSTANCE AdminAssembly

Groups == {"log", "tuning", "tasks"}

HasAdmin(sp) == sp.admin # NoAdmin

AdminSource(sp, g) == HasAdmin(sp) /\ g \in sp.admin.sources

\* A write group counts only with a write guard.
AdminWrites(sp, g) == HasAdmin(sp) /\ Adm!WriteOn(sp.admin, g)

\* The instance given for a group: the admin spec's overrides the service's.
Given(sp, g) ==
  IF AdminSource(sp, g) THEN "admin" ELSE IF sp.source[g] THEN "service" ELSE "none"

\* The admin handler needs an instance of the group.
AdminNeeds(sp, g) == HasAdmin(sp) /\ (AdminSource(sp, g) \/ sp.expose[g] \/ AdminWrites(sp, g))

\* The instance the service holds once assembled: one is created only for a group that is read.
Instance(sp, g) ==
  IF Given(sp, g) = "none" /\ AdminNeeds(sp, g) THEN "created" ELSE Given(sp, g)

\* The instance the admin handler is built with ("none": the group's endpoints are not served).
AdminInstance(sp, g) == IF AdminNeeds(sp, g) THEN Instance(sp, g) ELSE "none"

\* What NewDefaultAdmin is called with: the spec's admin and the instances it needs.
AdminHandlerSpec(sp) ==
  [sp.admin EXCEPT !.sources = {g \in Groups : AdminInstance(sp, g) # "none"}]

\* The task manager the service starts and shuts down.
Managed(sp) == IF sp.source["tasks"] THEN Instance(sp, "tasks") ELSE "none"

-----------------------------------------------------------------------------
\* One server: either a whole http.Server or an address and a handler; forced is the handler it
\* must serve ("none", or the admin handler's name).

ServerRefused(srv, forced) ==
  \/ srv.addr = "none"
  \/ srv.whole /\ forced # "none" /\ srv.handler \notin {"none", forced}
  \/ ~srv.whole /\ forced = "none" /\ srv.handler = "none"

\* The handler it serves; an http.Server without one serves the default mux.
ServerHandler(srv, forced) ==
  IF forced # "none" THEN forced ELSE IF srv.handler = "none" THEN "mux" ELSE srv.handler

\* Critical unless the spec says otherwise.
IsCritical(srv) == srv.critical # "false"

\* http.Server is given conservative timeouts only when built here.
BuiltTimeouts(srv) == IF srv.whole THEN {} ELSE {"ReadHeaderTimeout", "IdleTimeout"}

Standalone(sp) == HasAdmin(sp) /\ sp.standalone # NoServer
Mounted(sp)    == HasAdmin(sp) /\ sp.standalone = NoServer

\* s.servers: the primary, the extra ones, a standalone admin last.
ServerList(sp) ==
  (IF sp.primary = NoServer THEN <<>> ELSE <<sp.primary>>)
    \o sp.extra
    \o (IF Standalone(sp) THEN <<sp.standalone>> ELSE <<>>)

\* The position of the standalone admin server, which must serve the admin handler; 0: none.
AdminServer(sp) == IF Standalone(sp) THEN Len(ServerList(sp)) ELSE 0

\* What the lifecycle works with: the servers, in this order, the admin one, and the task manager.
Assembled(sp) ==
  [critical |-> [i \in DOMAIN ServerList(sp) |-> IsCritical(ServerList(sp)[i])],
   admin |-> AdminServer(sp), manager |-> Managed(sp)]

Forced(sp, i) == IF i = AdminServer(sp) THEN "admin" ELSE "none"

(* mountPrefix.  A path is the sequence of what lies between its slashes:   *)
(* "/-" is <<"-">>, "/-/" is <<"-", "">>, "/-/a/b" is <<"-", "a", "b">>.    *)

\* Blank in the spec, it is "/-/".
PrefixOf(sp) == IF sp.mountPrefix = <<>> THEN <<"-", "">> ELSE sp.mountPrefix

\* The base of a prefix: "/-" for "/-/" and for "/-".
MountBase(prefix) == IF prefix # <<>> /\ Last(prefix) = "" THEN Front(prefix) ELSE prefix

\* normalizeMountPrefixOrPanic: doubled slashes, and what is no path to begin with.
MountPrefixRefused(prefix) ==
  prefix \in BadPrefixes \cup {<<>>} \/ \E i \in 1..Len(prefix) - 1 : prefix[i] = ""

\* Where a request goes and the path it has there.
MountRoute(prefix, path) ==
  LET base == MountBase(prefix)
      rest == SubSeq(path, Len(base) + 1, Len(path))
  IN CASE path = base -> [to |-> "redirect", path |-> Append(base, "")]
       [] path # base /\ IsPrefix(base, path) ->
            [to   |-> "subtree",
             path |-> IF Len(rest) > 1 /\ rest[1] = "" THEN Tail(rest) ELSE rest]
       [] OTHER -> [to |-> "fallback", path |-> path]

-----------------------------------------------------------------------------
\* NewDefaultService panics, or a constructor it calls does.
Refused(sp) ==
  \/ \E g \in Groups : AdminWrites(sp, g) /\ Given(sp, g) = "none"
  \/ Standalone(sp) /\ sp.mountPrefix # <<>>
  \/ Mounted(sp) /\ (sp.primary = NoServer \/ MountPrefixRefused(PrefixOf(sp)))
  \/ HasAdmin(sp) /\ Adm!DefaultAdminRefused(AdminHandlerSpec(sp))
  \/ \E i \in DOMAIN sp.extra : sp.extra[i] = NoServer
  \/ \E i \in DOMAIN ServerList(sp) : ServerRefused(ServerList(sp)[i], Forced(sp, i))
=============================================================================
