------------------------------- MODULE MCJobs -------------------------------
(***************************************************************************)
(* Forms with one field out of order at a time, over every backend, and a  *)
(* world in which one thing, or two of them, are wrong.                    *)
(***************************************************************************)
EXTENDS Jobs

MCNames == {"app", "shop", "-x", "a=b", "sys", ""}
MCClass == [n \in MCNames |-> CASE n = "-x" -> "dashed" [] n = "a=b" -> "connection_string"
                                [] n = "sys" -> "system" [] n = "" -> "blank" [] OTHER -> "plain"]
MCPaths == {"/a", "/b", "rel", "/..", "nl", " "}
MCPathClass == [p \in MCPaths |-> CASE p = "rel" -> "relative" [] p = "/.." -> "up" [] p = "nl" -> "newline"
                                    [] p = " " -> "blank" [] OTHER -> "absolute"]

\* The forms in order: chosen databases over SSH, all databases over SSH or directly, a whole instance, files.
Good == {[Filled("mysql") EXCEPT !.databases = <<"app", "shop">>],
         [Filled("postgres") EXCEPT !.all = TRUE, !.conn = "direct", !.server = 0],
         [Filled("mongodb") EXCEPT !.all = TRUE],
         Filled("redis"),
         [Filled("files") EXCEPT !.paths = {"/a", "/b"}]}

With(f) ==
    {[f EXCEPT !.name = v] : v \in {"blank", "long"}} \cup
    {[f EXCEPT !.source = v] : v \in {"oracle"}} \cup
    {[f EXCEPT !.server = 0]} \cup
    {[f EXCEPT !.conn = v] : v \in {"ssh", "direct", "other"}} \cup
    {[f EXCEPT !.conn = "direct", !.host = "bracketed"]} \cup
    {[f EXCEPT !.host = v] : v \in {"blank", "spaced", "dashed", "bracketed"}} \cup
    {[f EXCEPT !.port = v] : v \in {-1, 1, 65535, 65536}} \cup
    {[f EXCEPT !.user = v] : v \in {"blank", "newline"}} \cup
    {[f EXCEPT !.password = FALSE]} \cup
    {[f EXCEPT !.all = FALSE, !.databases = v] :
        v \in {<<>>, <<"">>, <<"-x">>, <<"a=b">>, <<"sys">>, <<"app", "app">>, <<"app", "-x">>, <<"shop">>}} \cup
    {[f EXCEPT !.all = TRUE]} \cup
    {[f EXCEPT !.auth = "spaced"]} \cup
    {[f EXCEPT !.paths = v] :
        v \in {{}, {" "}, {"rel"}, {"/.."}, {"nl"}, {"/a", " "}}} \cup
    {[f EXCEPT !.excludes = "newline"], [f EXCEPT !.repo = 0]} \cup
    {[f EXCEPT !.kind = v] : v \in {"hourly", "weekly", "cron", "never"}} \cup
    {[f EXCEPT !.time = "3:30"], [f EXCEPT !.kind = "weekly", !.weekday = 7], [f EXCEPT !.kind = "cron", !.cron = "every"]} \cup
    {[f EXCEPT !.preset = v] : v \in {"long", "30d", "other"}} \cup
    {[f EXCEPT !.preset = "custom", !.keep = v] : v \in {<<0, 0, 0>>, <<0, 0, 1001>>, <<-1, 1, 1>>, <<0, 1000, 0>>}} \cup
    {[f EXCEPT !.timeout = v] : v \in {59, 60, 604800, 604801}} \cup
    {[f EXCEPT !.limit = v] : v \in {-1, 1}} \cup
    {[f EXCEPT !.compression = v] : v \in {"max", "gzip"}} \cup
    {[f EXCEPT !.extra = v] : v \in {"text", "blank", "newline"}}

Place(type) ==
    [type |-> type, path |-> "absolute", host |-> "name", port |-> 0, username |-> TRUE, credential |-> TRUE,
     private_key |-> FALSE, host_key |-> "key", url |-> "http", bucket |-> "name"]

Types == {"local", "sftp", "s3", "rest", "webdav"}
Elsewhere(r) ==
    {r} \cup {[r EXCEPT !.path = v] : v \in {"blank", "relative"}} \cup
    {[r EXCEPT !.host = v] : v \in {"blank", "spaced"}} \cup {[r EXCEPT !.port = v] : v \in {-1, 65535, 65536}} \cup
    {[r EXCEPT !.username = FALSE], [r EXCEPT !.credential = FALSE], [r EXCEPT !.private_key = TRUE],
     [r EXCEPT !.credential = FALSE, !.private_key = TRUE], [r EXCEPT !.host_key = "blank"]} \cup
    {[r EXCEPT !.url = v] : v \in {"blank", "ftp", "http_with_user"}} \cup
    {[r EXCEPT !.bucket = v] : v \in {"blank", "spaced"}}

AllRight == [server |-> "up", sftp |-> TRUE, dir |-> [p \in MCPaths |-> "dir"], db |-> "up",
             names |-> {"app", "sys"}, mounted |-> TRUE, answers |-> TRUE]

MCWorlds ==
    {AllRight} \cup
    {[AllRight EXCEPT !.server = v] : v \in {"unreachable", "refuses"}} \cup
    {[AllRight EXCEPT !.sftp = FALSE], [AllRight EXCEPT !.mounted = FALSE], [AllRight EXCEPT !.answers = FALSE]} \cup
    {[AllRight EXCEPT !.dir["/a"] = v] : v \in {"missing", "closed"}} \cup
    {[AllRight EXCEPT !.dir["/a"] = "file", !.dir["/b"] = "slow"]} \cup
    {[AllRight EXCEPT !.db = v] : v \in {"down", "refuses_login", "lacks_privileges"}} \cup
    {[AllRight EXCEPT !.names = v] : v \in {{"sys"}, {"app", "a=b"}, {"-x"}}}

\* A form in order meets every world and its changes; one with a field, or a location, out of
\* order is tried while everything works, and while the server does not answer.
Tried(f, r, ws) == [form |-> f, location |-> r, worlds |-> ws]
Few == {AllRight, [AllRight EXCEPT !.server = "unreachable"]}

MCForms == {Tried(g, Place("local"), MCWorlds) : g \in Good} \cup
           {Tried(f, Place("local"), {w}) : f \in UNION {With(g) : g \in Good}, w \in Few} \cup
           {Tried(g, r, {AllRight}) : g \in Good, r \in UNION {Elsewhere(Place(t)) : t \in Types}} \cup
           {Tried(g, Place(t), {[AllRight EXCEPT !.answers = FALSE]}) : g \in Good, t \in {"rest", "s3"}}
=============================================================================
