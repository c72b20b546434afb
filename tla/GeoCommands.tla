---------------------------- MODULE GeoCommands ----------------------------
(***************************************************************************)
(* Builders of the commands on positions (redis_commands.c).                *)
(***************************************************************************)
EXTENDS GenericCommands

\* Longitude, latitude and member all go through the serializer.
redis_geoadd_cmd(kw, r) ==
  CmdIf(r.n > 0,
        Cmd("GEOADD", <<Key1(r)>> \o OneFlag(r, <<"NX", "XX">>) \o Flag(r, "CH")
                      \o Times(r.n, <<Packed("degrees"), Packed("degrees"), Packed("value")>>)))

redis_geodist_cmd(kw, r) ==
  Cmd("GEODIST", <<Key1(r), Arg("place"), Arg("place")>> \o If("unit" \in r.o, <<Arg("arg")>>))

With(r)     == Flags(r, <<"WITHCOORD", "WITHDIST", "WITHHASH">>)
HasMeta(r)  == With(r) # <<>>
Sorted(r)   == OneFlag(r, <<"ASC", "DESC">>)
AtMost(r)   == Option(r, "COUNT") \o If("COUNT" \in r.o, Flag(r, "ANY"))

\* get_georadius_opts: what is stored cannot be returned with its distance.
GoodGeoradius(r) == ~(HasMeta(r) /\ r.o \cap {"STORE", "STOREDIST"} # {})

\* Of STORE and STOREDIST the first named stays; its key comes last in the request.
append_georadius_opts(r) ==
  LET store == LastNamed(r, <<"STORE", "STOREDIST">>)
  IN With(r) \o Sorted(r) \o AtMost(r) \o If(store # <<>>, <<Word(Head(store)), Two(r)>>)

redis_georadius_cmd(kw, r) ==
  CmdIf(GoodGeoradius(r),
        Cmd(kw, <<Key1(r), Arg("degrees"), Arg("degrees"), Arg("arg"), Arg("arg")>>
                \o append_georadius_opts(r)))

redis_georadiusbymember_cmd(kw, r) ==
  CmdIf(GoodGeoradius(r),
        Cmd(kw, <<Key1(r), Arg("place"), Arg("arg"), Arg("arg")>> \o append_georadius_opts(r)))

\* Where to look and how far; a polygon has no centre and no unit.
append_geosearch_position(r) ==
  CASE "polygon" \in r.o -> <<>>
    [] "member" \in r.o /\ "polygon" \notin r.o -> <<Word("FROMMEMBER"), Arg("place")>>
    [] OTHER -> <<Word("FROMLONLAT"), Arg("degrees"), Arg("degrees")>>

append_geosearch_shape(r) ==
  CASE "polygon" \in r.o -> <<Word("BYPOLYGON"), Count(3)>> \o Times(3, <<Arg("corner")>>)
    [] "box" \in r.o /\ "polygon" \notin r.o -> <<Word("BYBOX"), Arg("arg"), Arg("arg"), Arg("arg")>>
    [] OTHER -> <<Word("BYRADIUS"), Arg("arg"), Arg("arg")>>

redis_geosearch_cmd(kw, r) ==
  LET cmd == Cmd("GEOSEARCH", <<Key1(r)>> \o append_geosearch_position(r)
                              \o append_geosearch_shape(r) \o With(r) \o Sorted(r) \o AtMost(r))
  IN IF HasMeta(r) THEN WithCtx(cmd, "geo_withmeta") ELSE cmd

\* The destination comes first; ANY is not an option of it.
redis_geosearchstore_cmd(kw, r) ==
  Cmd("GEOSEARCHSTORE", <<Key1(r), Two(r)>> \o append_geosearch_position(r)
        \o append_geosearch_shape(r) \o Sorted(r) \o Option(r, "COUNT") \o Flag(r, "STOREDIST"))
=============================================================================
