---------------------------- MODULE KeyCommands ----------------------------
(***************************************************************************)
(* Builders of the commands on keys whatever they hold, and on clients      *)
(* (redis_commands.c).                                                      *)
(***************************************************************************)
EXTENDS GenericCommands

\* Of IDLETIME and FREQ the one named last stays.
redis_restore_cmd(kw, r) ==
  Cmd("RESTORE", <<Key1(r), Arg("arg"), Arg("arg")>> \o Flags(r, <<"REPLACE", "ABSTTL">>)
                 \o OneOption(r, <<"IDLETIME", "FREQ">>))

\* BY and GET read keys no client can see the slot of.
redis_sort_cmd(kw, r) ==
  LET Pattern(word) == If(word \in r.o, <<NotOnCluster>>) \o Option(r, word)
  IN Cmd(kw, <<Key1(r)>> \o Pattern("BY") \o OneFlag(r, <<"ASC", "DESC">>)
             \o If("STORE" \in r.o, <<Word("STORE"), Two(r)>>) \o Pattern("GET")
             \o Flag(r, "ALPHA") \o If("LIMIT" \in r.o, <<Word("LIMIT"), Arg("arg"), Arg("arg")>>))

redis_object_cmd(kw, r) ==
  CmdIf(r.op \in {"REFCOUNT", "IDLETIME", "ENCODING"},
        WithCtx(Cmd("OBJECT", <<Word(r.op), Key1(r)>>),
                IF r.op = "ENCODING" THEN "string" ELSE "long"))

\* One key in its place, several after the options.
redis_migrate_cmd(kw, r) ==
  LET many == "KEYS" \in r.o
  IN CmdIf(r.ks # <<>>,
           Cmd("MIGRATE", <<Arg("arg"), Arg("arg"), IF many THEN Word("") ELSE One(r),
                            Arg("arg"), Arg("arg")>>
                          \o Flags(r, <<"COPY", "REPLACE">>)
                          \o If("AUTH2" \in r.o, <<Word("AUTH2"), Arg("arg"), Arg("arg")>>)
                          \o If("AUTH2" \notin r.o, Option(r, "AUTH"))
                          \o If(many, <<Word("KEYS")>> \o Keys(r.ks))))

\* A cluster has one database.
redis_copy_cmd(kw, r) ==
  Cmd("COPY", If("DB" \in r.o, <<NotOnCluster>>) \o <<Key1(r), Two(r)>>
              \o Option(r, "DB") \o Flag(r, "REPLACE"))

redis_expire_cmd(kw, r) ==
  Cmd(kw, <<Key1(r), Arg("arg")>> \o OneFlag(r, <<"NX", "XX", "GT", "LT">>))

\* The member goes as it is.
generic_expiremember_cmd(kw, r) ==
  Cmd(kw, <<Key1(r), Arg("value"), Arg("arg")>> \o If("unit" \in r.o, <<Arg("arg")>>))
redis_expiremember_cmd(kw, r)   == generic_expiremember_cmd("EXPIREMEMBER", r)
redis_expirememberat_cmd(kw, r) == generic_expiremember_cmd("EXPIREMEMBERAT", [r EXCEPT !.o = {}])

\* sortAsc and its like (redis.c): the patterns without a look at the slot.
generic_sort_cmd(kw, r) ==
  Cmd("SORT", <<One(r)>> \o Option(r, "BY")
              \o If("LIMIT" \in r.o, <<Word("LIMIT"), Arg("arg"), Arg("arg")>>)
              \o Option(r, "GET") \o Flags(r, <<"DESC", "ALPHA">>)
              \o If("STORE" \in r.o, <<Word("STORE"), Two(r)>>))

-----------------------------------------------------------------------------
(* Clients. *)

redis_select_cmd(kw, r) == Cmd("SELECT", <<Arg("db")>>)
redis_auth_cmd(kw, r)   == Cmd("AUTH", If("user" \in r.o, <<Arg("arg")>>) \o <<Arg("arg")>>)

redis_slowlog_cmd(kw, r) ==
  Cmd("SLOWLOG", <<Word(r.op)>> \o If(r.op = "GET", Times(r.n, <<Arg("arg")>>)))

CommandCtx(op) ==
  CASE op = "COUNT"               -> "long"
    [] op \in {"GETKEYS", "LIST"} -> "multibulk_raw"
    [] op = "GETKEYSANDFLAGS"     -> "variant_strings"
    [] OTHER                      -> "command_info"

redis_command_cmd(kw, r) ==
  WithCtx(Cmd("COMMAND", If(r.op # "", <<Word(r.op)>>)
                         \o If(r.op \notin {"", "COUNT"}, Times(r.n, <<Arg("arg")>>))
                         \o <<RandSlot>>), CommandCtx(r.op))

ClientCtx(op) ==
  CASE op = "INFO"                         -> "client_info"
    [] op = "LIST"                         -> "client_list"
    [] op = "GETNAME"                      -> "string"
    [] op \in {"GETREDIR", "ID", "UNBLOCK"} -> "long"
    [] op = "TRACKINGINFO"                 -> "client_trackinginfo"
    [] OTHER                               -> "bool"

redis_build_client_list_command(r) == Options(r, <<"TYPE", "ID">>)
redis_build_client_kill_command(r) ==
  If("address" \in r.o, <<Arg("arg")>>)
  \o Options(r, <<"ID", "TYPE", "USER", "ADDR", "LADDR", "SKIPME">>)
redis_build_client_tracking_command(r) ==
  <<Word("ON")>> \o Option(r, "REDIRECT") \o If("PREFIX" \in r.o, Times(r.n, <<Word("PREFIX"), Arg("arg")>>))
  \o Flags(r, <<"BCAST", "OPTIN", "OPTOUT", "NOLOOP">>)

ClientArgs(r) ==
  CASE r.op = "LIST"     -> redis_build_client_list_command(r)
    [] r.op = "KILL"     -> redis_build_client_kill_command(r)
    [] r.op = "TRACKING" -> redis_build_client_tracking_command(r)
    [] r.op \in {"INFO", "GETNAME", "GETREDIR", "ID", "TRACKINGINFO", "UNPAUSE"} -> <<>>
    [] OTHER             -> Times(r.n, <<Arg("arg")>>)

redis_client_cmd(kw, r) ==
  CmdIf(r.op \in {"CACHING", "NO-EVICT", "PAUSE", "SETNAME", "TRACKING", "UNBLOCK"} => r.n > 0,
        WithCtx(Cmd("CLIENT", <<Word(r.op)>> \o ClientArgs(r)), ClientCtx(r.op)))
=============================================================================
