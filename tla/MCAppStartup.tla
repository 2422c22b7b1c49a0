---------------------------- MODULE MCAppStartup ----------------------------
EXTENDS AppStartup

MCTrims == (" kp" :> "kp")
MCUppers == ("kp" :> "KP") @@ ("xx" :> "XX") @@ ("vn" :> "VN")
MCLowers == ("X-My-Country" :> "x-my-country") @@ ("X-Country" :> "x-country")
MCDb == ("192.0.2.1" :> "KP") @@ ("192.0.2.2" :> "VN")

MCGeo(db) == [db_path |-> db, country_headers |-> <<"X-My-Country">>,
              blocked_countries |-> {"kp", "IR"}]

\* Everything configured; no database, no CRS and no blacklist.
MCConfigs == {[blacklist_file |-> b, crs_dir |-> b, geo |-> MCGeo(b)] : b \in BOOLEAN}

\* Up to three country headers: two default ones and the configured one.
MCValues == [{"cf-ipcountry", "x-country", "x-my-country"} -> {" kp", "xx", "VN", "absent"}]
MCHeaders ==
    {[n \in {m \in DOMAIN h : h[m] # "absent"} |-> h[n]] : h \in MCValues}

MCAsked == {<<"geo_blocked", <<>>>>, <<"GetCountry", <<"192.0.2.1">>>>,
            <<"ip_in_blacklist", <<>>>>, <<"crs_score", <<>>>>,
            <<"has_header", <<"X-Country">>>>}
=============================================================================
