--------------------------- MODULE MCSystemConfig ---------------------------
(***************************************************************************)
(* Instances of SystemConfig for TLC: every interface with settings that   *)
(* change, and every short rule against every short host.                  *)
(***************************************************************************)
EXTENDS SystemConfig, TLC

CONSTANTS h1, h2, u1, none

\* Symbols of texts: ports, prefixes and addresses are one symbol each.
MCPortOf == (":80" :> 80) @@ (":443" :> 443)
MCPrefixOf == ("/0" :> 0) @@ ("/3" :> 3) @@ ("/4" :> 4) @@ ("/5" :> 5) @@ ("/8" :> 8)
MCIpv4 == ("127.0.0.1" :> {3, 5}) @@ ("127.0.0.5" :> {3, 4, 5}) @@ ("127.0.0.9" :> {2, 3, 5})
MCIpv6 == ("::1" :> {4, 8}) @@ ("::2" :> {4, 7}) @@ ("::9" :> {1, 3, 4, 8})
MCLoopback == {<<"localhost">>, <<"127.0.0.1">>, <<"[", "::1", "]">>}
MCTypedScheme == (h1 :> none) @@ (h2 :> "https") @@ ("list" :> none)

-----------------------------------------------------------------------------
Schemes == {"http", "https", "any"}
NoHosts == [k \in Schemes |-> none]
Base == [ways |-> {}, url |-> none, same |-> FALSE, host |-> NoHosts,
         port |-> [k \in Schemes |-> 8080], caps |-> {}, simple |-> FALSE, ignore |-> <<>>]

\* KDE writes sections in any order, with keys of the same names in others.
\* A type is what the settings have switched on.
TypeOfKde(s) == IF s.ways = {} THEN "none"
                ELSE CASE "manual" \in s.ways -> "fixed" [] "script" \in s.ways -> "pac"
                       [] "detect" \in s.ways -> "wpad" [] OTHER -> "env"
MCKdeFile(s) ==
    LET proxy(k) == IF s.host[k] = none THEN none ELSE ProxyOf(s, k)
        decoy == <<Entry(<<"Proxy", "Type">>, "wpad"), Entry(<<"http", "Proxy">>, [host |-> h2, port |-> 0]),
                   Entry(<<"Proxy", "Config", "Script">>, u1), Entry(<<"NoProxyFor">>, <<"b">>)>>
    IN  <<Header(<<"Notification", "Messages">>)>> \o decoy
        \o <<Header(<<"Proxy", "Settings">>),
             Entry(<<"NoProxyFor">>, IF s.ignore = <<>> THEN none ELSE Front(Separated(s.ignore))),
             Entry(<<"Proxy", "Config", "Script">>, s.url),
             Entry(<<"Proxy", "Type">>, TypeOfKde(s)),
             Entry(<<"http", "Proxy">>, proxy("http")),
             Entry(<<"http", "s", "Proxy">>, proxy("https"))>>
        \o <<Header(<<"Cookie", "Policy">>)>> \o decoy

-----------------------------------------------------------------------------
\* The environments of a session.
Plain == [current |-> "", session |-> "", full |-> "", version |-> 0,
          gsettings |-> TRUE, gconf |-> TRUE, loads |-> TRUE]
Desktops == {Plain,
    [Plain EXCEPT !.current = "gnome"],
    [Plain EXCEPT !.session = "gnome", !.gsettings = FALSE],
    [Plain EXCEPT !.full = "kde"],
    [Plain EXCEPT !.current = "kde", !.version = 5]}
AllDesktops ==
    [current : {"", "gnome", "kde"}, session : {"", "gnome", "plasma", "kde"},
     full : {"", "gnome", "kde"}, version : {0, 4, 5}, gsettings : BOOLEAN,
     gconf : BOOLEAN, loads : BOOLEAN]

NoOverride == [url |-> none, proxy |-> NoProxy, list |-> none]
Override == {NoOverride, [NoOverride EXCEPT !.url = u1],
             [NoOverride EXCEPT !.proxy = [host |-> h2, port |-> 0]],
             [NoOverride EXCEPT !.list = <<"a">>], [NoOverride EXCEPT !.list = <<>>]}

UrlOf(scheme, host) == [scheme |-> scheme, host |-> host]
Places == [system : {"linux"}, env : Desktops] \cup [system : {"windows", "mac"}, env : {Plain}]

\* What a user may have set.
HostChoices == {NoHosts, [NoHosts EXCEPT !["http"] = h1], [NoHosts EXCEPT !["https"] = h2],
                [NoHosts EXCEPT !["http"] = h1, !["https"] = h2]}
BothHosts == [NoHosts EXCEPT !["http"] = h1, !["https"] = h2]
WayChoices(place) ==
    {{}, {"detect"}, {"manual"}} \cup
    (IF place.system = "linux" THEN {{"env"}, {"script"}} ELSE {{"script"}, {"detect", "script", "manual"}})
IgnoreChoices == {<<>>, << <<"a">> >>, << <<"b">>, <<"a", "*">> >>}
Chosen(place) ==
    {[Base EXCEPT !.ways = w, !.host = h, !.ignore = i, !.url = u] :
        w \in WayChoices(place), h \in HostChoices, i \in IgnoreChoices, u \in {none, u1}}
Odd == {[Base EXCEPT !.ways = {"manual"}, !.host = [NoHosts EXCEPT !["any"] = h1], !.ignore = << <<"a">> >>],
        [Base EXCEPT !.ways = {"manual"}, !.host = BothHosts, !.simple = TRUE, !.ignore = << <<"b">> >>],
        [Base EXCEPT !.ways = {"manual"}, !.host = BothHosts, !.same = TRUE],
        [Base EXCEPT !.ways = {"manual"}, !.host = BothHosts, !.ignore = << <<"b">>, <<"b">> >>],
        [Base EXCEPT !.host = BothHosts, !.caps = {"http", "https"}]}

Session(place, s, changes, url, over) ==
    [system |-> place.system, env |-> place.env, settings |-> s, changes |-> changes,
     url |-> url, override |-> over]

\* Sessions whose settings stay, with every setting, and sessions whose settings the
\* user changes, to others that differ in several.
StillSessions ==
    UNION {{Session(place, s, {}, UrlOf(scheme, <<"a">>), NoOverride) :
               s \in Chosen(place) \cup Odd, scheme \in {"http", "https"}} : place \in Places}

Alternatives ==
    {[Base EXCEPT !.host = BothHosts],
     [Base EXCEPT !.ways = {"detect"}, !.url = u1],
     [Base EXCEPT !.ways = {"detect"}, !.host = BothHosts, !.ignore = << <<"a">> >>],
     [Base EXCEPT !.ways = {"script"}, !.url = u1, !.host = BothHosts],
     [Base EXCEPT !.ways = {"manual"}, !.url = u1],
     [Base EXCEPT !.ways = {"manual"}, !.host = BothHosts, !.ignore = << <<"a">> >>],
     [Base EXCEPT !.ways = {"manual"}, !.host = [NoHosts EXCEPT !["http"] = h2],
                  !.port = [k \in Schemes |-> 0], !.same = TRUE],
     [Base EXCEPT !.ways = {"manual"}, !.host = [NoHosts EXCEPT !["any"] = h1], !.ignore = << <<"b">> >>]}
ChangingSessions ==
    UNION {{Session(place, s, Alternatives, UrlOf(scheme, <<"a">>), NoOverride) :
               s \in Alternatives, scheme \in {"http", "https"}} : place \in Places}
MCChanged(c) == c.changes

OverriddenSessions ==
    UNION {{Session(place, s, {}, UrlOf("http", <<"a">>), o) : s \in Odd, o \in Override} : place \in Places}

AnyDesktop ==
    {Session([system |-> "linux", env |-> e], [Base EXCEPT !.ways = {w}, !.host = BothHosts], {},
             UrlOf("http", <<"a">>), NoOverride) : e \in AllDesktops, w \in {"manual", "env"}}

\* Empty hosts are in the lists of GNOME 2, which leaves them out.
EmptyHosts ==
    {Session([system |-> "linux", env |-> [Plain EXCEPT !.session = "gnome", !.gsettings = FALSE]],
             [Base EXCEPT !.ways = {"manual"}, !.host = BothHosts, !.ignore = i], {},
             UrlOf("http", <<"a">>), NoOverride) :
        i \in {<< <<>>, <<"a">> >>, << <<"a">>, <<>> >>, << <<>>, <<>> >>}}

-----------------------------------------------------------------------------
\* Rules by themselves, and with another one.
Texts(symbols, n) == UNION {[1 .. k -> symbols] : k \in 0 .. n}
Names == Texts({"a", "b", "."}, 3) \ {<<>>}
Short == Texts({"a", "b", ".", "*"}, 3)
Patterns == (Short \ {<<>>}) \cup {<<"*">> \o t : t \in Short}
Addresses == {<<a>> : a \in DOMAIN MCIpv4} \cup {<<"[", a, "]">> : a \in DOMAIN MCIpv6}
Ranges == {<<a, p>> : a \in DOMAIN MCIpv4 \cup DOMAIN MCIpv6, p \in DOMAIN MCPrefixOf}
          \cup {<<"a", "/8">>, <<"127.0.0.1", "/8", "127.0.0.5">>}
Brackets == {<<"<local>">>, <<"<-loopback>">>, <<"localhost">>}
OnPort(texts) == texts \cup {t \o <<p>> : t \in texts, p \in DOMAIN MCPortOf}

Ruled(url, rules) ==
    Session([system |-> "linux", env |-> Plain], [Base EXCEPT !.host = BothHosts, !.ignore = rules], {},
            url, NoOverride)
RuleSessions ==
    {Ruled(UrlOf("http", host), <<rule>>) : host \in Names, rule \in Patterns}
    \cup {Ruled(UrlOf(scheme, host), <<rule>>) :
              scheme \in {"http", "https"},
              host \in OnPort(Texts({"a", "b", "."}, 2) \ {<<>>}),
              rule \in OnPort(Texts({"a", ".", "*"}, 2)) \ {<<>>}}
    \cup {Ruled(UrlOf("http", host), <<rule>>) :
              host \in OnPort(Addresses \cup {<<"localhost">>, <<"a">>, <<"a", ".", "b">>}),
              rule \in Ranges \cup Brackets \cup OnPort(Addresses)}

\* Rules that are cut to the buffer, and rules that together run past its end.
LongSessions ==
    {Ruled(UrlOf("http", host), rules) :
        host \in {<<"a">>, <<"a", "a", "a", "a">>, <<"a", "a", "a", "a", "a">>, <<"localhost">>},
        rules \in {<< [i \in 1 .. n |-> "a"] >> : n \in 4 .. 8}
                  \cup {<< <<".">> \o [i \in 1 .. n |-> "a"] >> : n \in 3 .. 5}
                  \cup {<< [i \in 1 .. n |-> "a"], [i \in 1 .. m |-> "a"] >> : n \in 2 .. 5, m \in 1 .. 4}}

\* Lists of two rules.
ListSessions ==
    {Ruled(UrlOf("http", host), <<first, second>>) :
        host \in Names, first \in Texts({"a", "b"}, 2) \ {<<>>}, second \in Texts({"a", "b"}, 2) \ {<<>>}}

MCSessions == StillSessions \cup ChangingSessions \cup OverriddenSessions \cup AnyDesktop \cup EmptyHosts
              \cup RuleSessions \cup LongSessions

-----------------------------------------------------------------------------
\* Lists of proxies: short ones, ones as long as the spare room allows, and ones that
\* are cut or run past it.
E(type, port, length) == [type |-> type, port |-> port, length |-> length]
Repeated(entry, n) == [i \in 1 .. n |-> entry]
ScriptLists ==
    [1 .. 1 -> {E("PROXY", 80, 4), E("DIRECT", 0, 0), E("", 0, 3)}]
    \cup [1 .. 2 -> {E("SOCKS", 1080, 6), E("HTTPS", 443, 1), E("DIRECT", 0, 0)}]
    \cup {Repeated(E("PROXY", 0, 1), 14), Repeated(E("PROXY", 8080, 30), 14), Repeated(E("SOCKS5", 1, 9), 14),
           Repeated(E("DIRECT", 0, 0), 14), Repeated(E("", 0, 3), 10)}
    \cup UNION {{Repeated(E("DIRECT", 0, 0), n), Repeated(E("", 443, 100), n), Repeated(E("SOCKS4", 1, 1), n)} :
                   n \in {9, 13, 15, 17, 20, 40}}
    \cup {Append(Repeated(E("", 0, 3), n), E("PROXY", 80, 200)) : n \in 10 .. 14}
WinLists ==
    [1 .. 2 -> {E("", 0, 3), E("https", 443, 6), E("socks", 0, 1)}]
    \cup {Repeated(E("", 0, 1), n) : n \in {18, 19, 20, 40}}
    \cup {Repeated(E("http", 0, 30), n) : n \in {18, 63, 64, 65}}
    \cup {Append(Repeated(E("", 0, 1), n), E("https", 443, 200)) : n \in 17 .. 20}
MCLists(system) == IF system = "windows" THEN WinLists ELSE ScriptLists
MCNoLists(system) == {}

-----------------------------------------------------------------------------
\* The instances are among those that the theorems about SystemConfig are about.
MCSymbols == {"a", "b", ".", "*", "[", "]", "localhost"} \cup SpecialRules
             \cup DOMAIN MCPortOf \cup DOMAIN MCPrefixOf \cup DOMAIN MCIpv4 \cup DOMAIN MCIpv6

ASSUME MCSystemConfigAssumption ==
    HostsListed(MCSymbols) /\ KdeFilesRecord /\ RulesWritten(MCSymbols) /\ ListsTyped
=============================================================================
