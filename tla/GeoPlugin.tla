------------------------------ MODULE GeoPlugin ------------------------------
(***************************************************************************)
(* waf-engine geo/plugin.rs: how a request's country is resolved and what  *)
(* the two GRL functions of the plugin answer.                             *)
(*                                                                         *)
(* A plugin is [reader, extra_headers, blocked_countries]; a request       *)
(* context is [headers, client_ip, extensions], with header names in lower *)
(* case, as hyper delivers them.                                           *)
(***************************************************************************)
EXTENDS Naturals, Sequences

CONSTANTS
    Trims,    \* str::trim, for the strings it changes
    Uppers,   \* str::to_uppercase, for the strings it changes
    Lowers,   \* str::to_lowercase, for the strings it changes
    Ips,      \* strings that parse as an IpAddr
    Db        \* the GeoLite2 database: address -> iso_code

trim(s) == IF s \in DOMAIN Trims THEN Trims[s] ELSE s
to_uppercase(s) == IF s \in DOMAIN Uppers THEN Uppers[s] ELSE s
to_lowercase(s) == IF s \in DOMAIN Lowers THEN Lowers[s] ELSE s

DEFAULT_COUNTRY_HEADERS ==
    <<"cf-ipcountry", "x-country", "x-geoip-country", "x-geo-country">>

\* HashMap::insert
insert(map, key, value) ==
    [k \in DOMAIN map \union {key} |-> IF k = key THEN value ELSE map[k]]

\* opened: the database file of geo.db_path, if there is one, could be read.
new(geo, opened) ==
    [reader |-> geo.db_path /\ opened,
     extra_headers |-> [i \in DOMAIN geo.country_headers |->
                            to_lowercase(geo.country_headers[i])],
     blocked_countries |-> {to_uppercase(c) : c \in geo.blocked_countries}]

lookup_ip(plugin, ip) ==
    IF trim(ip) \in Ips \intersect DOMAIN Db /\ plugin.reader
        THEN to_uppercase(Db[trim(ip)])
        ELSE ""

Usable(v) == v \notin {"", "-", "XX"}

\* Mutant: only the first country header that is present is looked at.
country_of_first_header(plugin, ctx) ==
    LET val(name) == to_uppercase(trim(ctx.headers[name]))
        found == SelectSeq(DEFAULT_COUNTRY_HEADERS \o plugin.extra_headers,
                           LAMBDA name : name \in DOMAIN ctx.headers)
    IN  IF found = <<>> THEN {} ELSE {val(Head(found))} \ {"", "-", "XX"}

\* The usable value of the first header that has one, as a set of at most one.
country_from_headers(plugin, ctx) ==
    LET names == DEFAULT_COUNTRY_HEADERS \o plugin.extra_headers
        val(i) == to_uppercase(trim(ctx.headers[names[i]]))
        found == {i \in DOMAIN names : names[i] \in DOMAIN ctx.headers /\ Usable(val(i))}
    IN  {val(i) : i \in {i \in found : \A j \in found : i <= j}}

enrich(plugin, ctx) ==
    LET from == country_from_headers(plugin, ctx)
        country == IF from = {} THEN lookup_ip(plugin, ctx.client_ip)
                                ELSE CHOOSE c \in from : TRUE
    IN  [ctx EXCEPT !.extensions = insert(@, "geo.country", country)]

Country(ctx) ==
    IF "geo.country" \in DOMAIN ctx.extensions THEN ctx.extensions["geo.country"] ELSE ""

\* GetCountry(ip) with a non-empty argument asks the database only.
GetCountry(plugin, ctx, args) ==
    IF args # <<>> /\ Head(args) # ""
        THEN <<"Str", lookup_ip(plugin, Head(args))>>
        ELSE <<"Str", Country(ctx)>>

geo_blocked(plugin, ctx) ==
    <<"Bool", Country(ctx) # "" /\ Country(ctx) \in plugin.blocked_countries>>
=============================================================================
