------------------------------ MODULE MCOptions ------------------------------
(***************************************************************************)
(* The layers of a fetch's options: a session's, the adapter's, those of a *)
(* request and what the request itself says.                               *)
(***************************************************************************)
EXTENDS BrowserOptions

Agent == "User-Agent"
HeadersBy(v) == {<<>>, [k \in {Agent} |-> <<v>>], [k \in {"X"} |-> <<v>>]}

----------------------------------------------------------------------------
NoFields == [f \in {"body", "data", "json", "stealthyHeaders", "impersonate", "http3", "store"} |-> ""]
\* A proxy with credentials, a list of proxies, or a rotator.
Routes ==
    {Direct,
     [proxy |-> [NoProxy EXCEPT !.url = "p1", !.auth = "u"], rotator |-> ""],
     [proxy |-> [NoProxy EXCEPT !.urls = "p2"], rotator |-> ""],
     [proxy |-> NoProxy, rotator |-> "r"]}
OptionsBy(v, fields) ==
    {[headers |-> h, fields |-> f, proxy |-> r.proxy, rotator |-> r.rotator, safety |-> NoSafety] :
        h \in HeadersBy(v), f \in fields, r \in Routes}
SessionsWithHeaders ==
    {[hasHeaders |-> TRUE, headers |-> h, proxy |-> r.proxy, rotator |-> r.rotator, store |-> "s"] :
        h \in HeadersBy("s"), r \in Routes}
StaticRequests ==
    [method : {"GET"}, headers : HeadersBy("q"), body : {"", "b"},
     options : OptionsBy("o", {NoFields, [NoFields EXCEPT !["json"] = "j"]}),
     meta : {[proxy |-> "", proxies |-> ""], [proxy |-> "m", proxies |-> ""]}]
StaticInputs ==
    [session : SessionsWithHeaders,
     adapter : OptionsBy("a", {NoFields, [NoFields EXCEPT !["stealthyHeaders"] = "true"]}),
     request : StaticRequests]

----------------------------------------------------------------------------
NoBrowserFields == [f \in {"userAgent", "locale", "cdpURL"} |-> ""]
NoSwitches == [s \in StealthSwitches \cup {"stealth", "disableResources", "blockAds"} |-> FALSE]
SomeSwitches ==
    {NoSwitches, [NoSwitches EXCEPT !["blockAds"] = TRUE], [NoSwitches EXCEPT !["generateHeaders"] = TRUE],
     [NoSwitches EXCEPT !["googleReferer"] = TRUE, !["blockWebRTC"] = TRUE]}
ServersBy(v) == {NoServer, [server |-> v, user |-> ""], [server |-> v, user |-> v]}
NoOptions ==
    [headers |-> <<>>, fields |-> NoBrowserFields, switches |-> NoSwitches, proxy |-> NoServer, wait |-> NoWait,
     cookies |-> <<>>, blocked |-> <<>>, flags |-> <<>>, actions |-> <<>>, shot |-> NoShot]
\* A layer sets its headers, a field, a proxy or what it blocks, with switches of any kind,
\* or what to wait for.
LayersBy(v, switches) ==
    UNION {{[o EXCEPT !.switches = s] : s \in switches} :
        o \in {[NoOptions EXCEPT !.headers = h] : h \in {<<>>, [k \in {Agent} |-> <<v>>]}}
              \cup {[NoOptions EXCEPT !.proxy = p] : p \in ServersBy(v)}
              \cup {[NoOptions EXCEPT !.fields["userAgent"] = v], [NoOptions EXCEPT !.blocked = <<v>>]}}
    \cup {[NoOptions EXCEPT !.wait = [selector |-> v, state |-> s]] : s \in {"", "hidden"}}
BrowserInputs ==
    [session : LayersBy("s", {s \in SomeSwitches : ~s["googleReferer"] /\ ~s["generateHeaders"]}),
     adapter : [options : LayersBy("a", SomeSwitches), rotates : BOOLEAN, stealth : BOOLEAN],
     request : [options : LayersBy("o", SomeSwitches), headers : {<<>>, [k \in {Agent} |-> <<"q">>]}, meta : ServersBy("m")]]
Rotated == [NoProxy EXCEPT !.url = "rot", !.auth = "ru"]
=============================================================================
