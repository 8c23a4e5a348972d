---------------------------- MODULE SystemConfig ----------------------------
(***************************************************************************)
(* A request that is answered from the configuration of the user:          *)
(* proxy_resolver_get_proxies_for_url_from_system_config of src/resolver.c *)
(* with the getters of src/config.c and of the interface that              *)
(* proxy_config_global_init chose.  What only a script can answer goes on  *)
(* to the resolver of the platform; those of Linux and Windows XP turn the *)
(* list that comes back into uris.                                         *)
(*                                                                         *)
(* The settings are read one at a time while the user may change them: the *)
(* interfaces of GNOME ask for every key by itself and for the mode before *)
(* each, those of Windows and macOS take what a getter needs at once, and  *)
(* a file of KDE is read when the library is initialized.                  *)
(***************************************************************************)
EXTENDS ConfigSources, ProxyLists

CONSTANTS Sessions,    \* a system, its environment and settings, a url and the overrides
          Changed(_),  \* what the settings of a session may be changed to
          KdeFile(_),  \* the file that KDE has for settings
          Lists(_),    \* what a script of a system may return
          MaxChanges   \* changes of the settings during a request

Systems == {"linux", "windows", "mac"}
Ways == {"detect", "script", "manual", "env"}
Gnome == {"gnome2", "gnome3"}

\* The settings that a session may have.
SettingsOf(c) == {c.settings} \cup Changed(c)

ASSUME SystemConfigAssumption ==
    /\ MaxChanges \in Nat
    /\ \A c \in Sessions :
          /\ c.system \in Systems /\ c.url.scheme # "any"
          /\ \A s \in SettingsOf(c) :
                /\ s.ways \subseteq Ways
                /\ {c.url.scheme, "http", "any"} \subseteq DOMAIN s.host
                \* GNOME and KDE have one mode, Windows lists one proxy or one for each scheme.
                /\ c.system = "linux" => \A v, w \in s.ways : v = w
                /\ s.host["any"] # NoHost => \A k \in DOMAIN s.host \ {"any"} : s.host[k] = NoHost

VARIABLES
    session,    \* a constant of every behaviour
    interface,  \* the one that proxy_config_global_init chose
    settings,   \* those of the user at present
    past,       \* those in force since the request began, one after the other
    file,       \* the file of KDE, as it was at the initialization
    pc,         \* the next read
    got,        \* what the reads brought: the key of the proxy, and the proxy
    answer

vars == <<session, interface, settings, past, file, pc, got, answer>>
constant == <<session, interface, file>>

NotYet == [kind |-> "none"]
Evaluate == [kind |-> "evaluate"]
Direct == [kind |-> "direct"]
Through(proxy) == [kind |-> "proxy", uri |-> UrlFromHost(proxy)]

Init ==
    /\ session \in Sessions
    /\ settings = session.settings
    /\ file = KdeFile(session.settings)
    /\ interface = CASE session.system = "linux" -> Interface(session.env, file)
                     [] session.system = "windows" -> "win"
                     [] session.system = "mac" -> "mac"
    /\ past = <<settings>>
    /\ pc = "url"
    /\ got = [key |-> session.url.scheme, proxy |-> NoProxy]
    /\ answer = NotYet

\* The user changes the settings while the request is answered; the environment of
\* a process stays as it is.
Change ==
    /\ interface # "env" /\ pc \notin {"script", "done"}
    /\ Len(past) <= MaxChanges
    /\ \E s \in Changed(session) \ {settings} :
          /\ settings' = s
          /\ past' = Append(past, s)
    /\ UNCHANGED <<session, interface, file, pc, got, answer>>

-----------------------------------------------------------------------------
Finish(a) == pc' = "done" /\ answer' = a
GoOn(next) == pc' = next /\ UNCHANGED answer

\* What a script has to answer.
NeedScript == pc' = "script" /\ answer' = Evaluate

Keep == UNCHANGED <<constant, settings, past>>

\* proxy_config_gnome2_is_mode, proxy_config_gnome3_is_mode.
IsMode(mode) == settings.ways = {mode}

\* proxy_config_get_auto_config_url: the override, the mode of GNOME, ...
OverriddenUrl ==
    /\ pc = "url" /\ session.override.url # NoUrl
    /\ NeedScript
    /\ UNCHANGED got /\ Keep

UrlMode ==
    /\ pc = "url" /\ session.override.url = NoUrl /\ interface \in Gnome
    /\ GoOn(IF IsMode("detect") THEN "autoconfig" ELSE "proxy")
    /\ UNCHANGED got /\ Keep

\* ... its url, ...
UrlKey ==
    /\ pc = "autoconfig"
    /\ IF settings.url # NoUrl THEN NeedScript ELSE GoOn("proxy")
    /\ UNCHANGED got /\ Keep

\* ... or the getter of another interface.
Url ==
    /\ pc = "url" /\ session.override.url = NoUrl /\ interface \notin Gnome
    /\ IF AutoConfigUrl(interface, settings, file) # NoUrl THEN NeedScript ELSE GoOn("proxy")
    /\ UNCHANGED got /\ Keep

\* proxy_config_get_proxy: the override, the mode of GNOME, ...
Found(proxy) ==
    /\ got' = [got EXCEPT !.proxy = proxy]
    /\ GoOn(IF proxy # NoProxy THEN "list" ELSE "detect")

OverriddenProxy ==
    /\ pc = "proxy" /\ session.override.proxy # NoProxy
    /\ Found(session.override.proxy) /\ Keep

ProxyMode ==
    /\ pc = "proxy" /\ session.override.proxy = NoProxy /\ interface \in Gnome
    /\ GoOn(CASE ~IsMode("manual") -> "detect"
              [] IsMode("manual") /\ interface = "gnome3" -> "same"
              [] IsMode("manual") /\ interface = "gnome2" -> "host")
    /\ UNCHANGED got /\ Keep

\* ... proxy_config_gnome3_use_same_proxy, ...
SameKey ==
    /\ pc = "same"
    /\ got' = [got EXCEPT !.key = IF settings.same THEN "http" ELSE @]
    /\ GoOn("host") /\ Keep

\* ... the host and the port, ...
HostKey ==
    /\ pc = "host"
    /\ got' = [got EXCEPT !.proxy.host = settings.host[got.key]]
    /\ GoOn(IF settings.host[got.key] # NoHost THEN "port" ELSE "detect")
    /\ Keep

PortKey ==
    /\ pc = "port"
    /\ got' = [got EXCEPT !.proxy.port = settings.port[got.key]]
    /\ GoOn("list") /\ Keep

\* ... or the getter of another interface.
GetProxy ==
    /\ pc = "proxy" /\ session.override.proxy = NoProxy /\ interface \notin Gnome
    /\ Found(Proxy(interface, settings, file, session.url.scheme)) /\ Keep

\* A proxy was found: it is bypassed or used.
Decide(list) ==
    /\ \E bypass \in Bypasses(session.url, list) :
          Finish(IF bypass THEN Direct ELSE Through(got.proxy))
    /\ UNCHANGED got

\* proxy_config_get_bypass_list: the override, the mode of GNOME, ...
OverriddenList ==
    /\ pc = "list" /\ session.override.list # NoList
    /\ Decide(session.override.list) /\ Keep

ListMode ==
    /\ pc = "list" /\ session.override.list = NoList /\ interface \in Gnome
    /\ IF IsMode("manual") THEN GoOn("ignore") /\ UNCHANGED got ELSE Decide(NoList)
    /\ Keep

\* ... its hosts to ignore, ...
IgnoreKey ==
    /\ pc = "ignore"
    /\ Decide(IF interface = "gnome3" THEN Gnome3Ignored(settings.ignore)
                                      ELSE Gnome2Ignored(settings.ignore))
    /\ Keep

\* ... or the getter of another interface.
List ==
    /\ pc = "list" /\ session.override.list = NoList /\ interface \notin Gnome
    /\ Decide(BypassList(interface, settings, file)) /\ Keep

\* No proxy was found: proxy_config_get_auto_discover.
Detect ==
    /\ pc = "detect"
    /\ IF AutoDiscover(interface, settings, file) THEN NeedScript ELSE Finish(Direct)
    /\ UNCHANGED got /\ Keep

\* The list that a script returned, as the resolver of Linux converts it, ...
Script ==
    /\ pc = "script" /\ session.system = "linux"
    /\ \E list \in Lists("linux") :
          Finish([kind |-> "list", of |-> list, text |-> UriList(list, session.url.scheme)])
    /\ UNCHANGED got /\ Keep

\* ... and the one of WinHTTP, as that of Windows XP does, which keeps it if it has
\* bypassed the proxy before.  The other resolvers write uris one by one.
WinScript ==
    /\ pc = "script" /\ session.system = "windows"
    /\ \E list \in Lists("windows") :
          Finish([kind |-> "list", of |-> list, text |-> WinUriList(list)])
    /\ UNCHANGED got /\ Keep

Next ==
    \/ Change
    \/ OverriddenUrl \/ UrlMode \/ UrlKey \/ Url
    \/ OverriddenProxy \/ ProxyMode \/ SameKey \/ HostKey \/ PortKey \/ GetProxy
    \/ OverriddenList \/ ListMode \/ IgnoreKey \/ List
    \/ Detect \/ Script \/ WinScript

Spec == Init /\ [][Next]_vars

-----------------------------------------------------------------------------
TypeOK ==
    /\ interface \in Gnome \cup {"kde", "env", "win", "mac"}
    /\ past # <<>> /\ past[1] = session.settings /\ past[Len(past)] = settings
    /\ pc \in {"url", "autoconfig", "proxy", "same", "host", "port", "list", "ignore",
               "detect", "script", "done"}
    /\ answer.kind \in {"none", "evaluate", "direct", "proxy", "list"}

\* What settings mean, apart from how they are read.  A script is asked for where
\* one is configured; GNOME has a url only with its automatic mode.
NamesScript(s) ==
    /\ s.url # NoUrl
    /\ (IF interface \in Gnome THEN "detect" ELSE "script") \in s.ways
    /\ interface # "env"

\* The proxy for a url.  GNOME 3 may have one for all schemes; Windows lists one
\* for all or one for each; an environment variable counts in either case but for
\* HTTP_PROXY.
ProxyFor(s) ==
    LET scheme == session.url.scheme
    IN  CASE session.override.proxy # NoProxy -> session.override.proxy
          [] session.override.proxy = NoProxy /\ interface = "mac" -> ProxyOf(s, scheme)
          [] session.override.proxy = NoProxy /\ interface = "env" ->
                IF scheme = "http" /\ scheme \in s.caps THEN NoProxy ELSE ProxyOf(s, scheme)
          [] OTHER ->
                CASE "manual" \notin s.ways -> NoProxy
                  [] "manual" \in s.ways /\ interface = "gnome3" /\ s.same -> ProxyOf(s, "http")
                  [] "manual" \in s.ways /\ interface = "win" /\ s.host[scheme] = NoHost ->
                        ProxyOf(s, "any")
                  [] OTHER -> ProxyOf(s, scheme)

\* Where the code departs from that: for a scheme that Windows has no proxy for, and
\* others have one, it takes the text of the whole list for the proxy.
NotListed(s) ==
    LET listed == {k \in DOMAIN s.host : s.host[k] # NoHost}
    IN  /\ interface = "win" /\ session.override.proxy = NoProxy /\ "manual" \in s.ways
        /\ listed # {} /\ listed \cap {session.url.scheme, "any"} = {}
TheWholeList == [host |-> WholeList, port |-> 0]
ProxyUsed(s) == IF NotListed(s) THEN TheWholeList ELSE ProxyFor(s)

\* The list of rules that goes with a proxy; KDE, macOS and the environment have it
\* whether or not a proxy is switched on.
RulesOf(s) ==
    LET local == IF interface = "mac" /\ s.simple THEN << <<"<local>">> >> ELSE <<>>
        rules == local \o NonEmpty(s.ignore)
        switchedOff == interface \in Gnome \cup {"win"} /\ "manual" \notin s.ways
    IN  CASE session.override.list # NoList -> session.override.list
          [] session.override.list = NoList /\ (rules = <<>> \/ switchedOff) -> NoList
          [] OTHER -> Front(Separated(rules))

\* What an interface may have read from moment i to moment k of the past.  Those of
\* GNOME read one key after the other: the mode, then whether one proxy is for all, the
\* url or the hosts to ignore, then the host, then the port.
Seen(i, k) ==
    LET reads == {m \in [1 .. 4 -> i .. k] : \A x, y \in 1 .. 4 : x <= y => m[x] <= m[y]}
    IN  CASE interface = "kde" -> {session.settings}
          [] interface \in Gnome ->
                {[ways |-> past[m[1]].ways, url |-> past[m[2]].url, same |-> past[m[2]].same,
                  ignore |-> past[m[2]].ignore, host |-> past[m[3]].host,
                  port |-> past[m[4]].port] : m \in reads}
          [] OTHER -> {past[m] : m \in i .. k}

\* The answers for a proxy, where u says whether a script is configured, and l what
\* bypasses the proxy and, without one, whether to discover a script.
Answers(u, proxy, l) ==
    CASE session.override.url # NoUrl \/ NamesScript(u) -> {Evaluate}
      [] OTHER ->
            CASE proxy # NoProxy -> {IF bypass THEN Direct ELSE Through(proxy) :
                                        bypass \in Bypasses(session.url, RulesOf(l))}
              [] proxy = NoProxy /\ interface # "env" /\ "detect" \in l.ways -> {Evaluate}
              [] OTHER -> {Direct}

\* The answer is the one that the settings give, whatever the interface and however
\* often they change while config.c reads them: the url is as it was set at first, the
\* proxy as it was set then or later, and its list of hosts, or the discovery, as set
\* then or later still.  Each of the three is as it was at one moment, but for GNOME,
\* which may have the mode, the host and the port from different moments, in this order.
ConfigExplained ==
    /\ TypeOK
    /\ answer.kind \in {"evaluate", "direct", "proxy"} =>
          \E i, j \in DOMAIN past :
              /\ i <= j
              /\ \E u \in Seen(1, i), p \in Seen(i, j), l \in Seen(j, Len(past)) :
                    answer \in Answers(u, ProxyUsed(p), l)

\* should_bypass_proxy decides by a list of one rule as the rule says: the pattern,
\* the range or the name in brackets, compared with the host and the port of the url,
\* for every rule that fits into the buffer.  The two departures are named.
RuleDecides ==
    LET rule == RulesOf(settings)
    IN  (/\ Len(past) = 1 /\ answer.kind \in {"direct", "proxy"}
         /\ ProxyFor(settings) # NoProxy
         /\ rule # NoList /\ ~Has(rule, {","}) /\ FitsBuffer(rule))
        => \/ answer = Direct <=> Verdict(RuleSays(rule, session.url), session.url)
           \/ Departs(rule, session.url)

\* A list of proxies, of any length, reaches the client whole where its uris fit into
\* the room allocated for them: that of WinHTTP there and only there, that of a script
\* if the uris fit with every scheme counted twice.
UriListWhole ==
    answer.kind = "list" =>
        LET list == answer.of
            script == session.system = "linux"
            uris == UrisOf(list, IF script THEN ScriptSchemes(list, session.url.scheme)
                                 ELSE WinSchemes(list))
            fits(times, room) == Total(Counted(uris, times)) < room
            whole == answer.text = [uris |-> uris, overrun |-> FALSE]
        IN  IF script THEN fits(2, ScriptRoom(list)) => whole
                      ELSE fits(1, WinRoom(list)) <=> whole

\* should_bypass_proxy evaluates each rule of a list: a host that one of them
\* bypasses, and that no other speaks about, goes direct.
EachRuleCounts ==
    (/\ Len(past) = 1 /\ answer.kind = "proxy" /\ RulesOf(settings) # NoList)
    => LET rules == Rules(RulesOf(settings))
           says(i) == RuleSays(rules[i], session.url)
       IN  ~ \E i \in DOMAIN rules :
                says(i) = "bypass" /\ \A k \in DOMAIN rules \ {i} : says(k) = "nothing"

-----------------------------------------------------------------------------
\* What the theorems about SystemConfig take for granted of a desktop and its user.

\* The hosts to ignore are texts without a comma, and none is empty but in a list of
\* GNOME 2.
HostsListed(symbols) ==
    /\ "," \notin symbols
    /\ \A c \in Sessions : \A s \in SettingsOf(c) :
          /\ s.ignore \in Seq(Seq(symbols))
          /\ \/ c.system = "linux" /\ Interface(c.env, KdeFile(c.settings)) = "gnome2"
             \/ \A i \in DOMAIN s.ignore : s.ignore[i] # <<>>

\* Line i of a file of KDE belongs to the section whose header is line h.
InSection(f, h, i) ==
    h < i /\ f[h].section # <<>> /\ \A k \in h + 1 .. i : f[k].section = <<>>

\* The section of the proxy has one line for the key, which has the value.  Other
\* sections may have the key as well, if their names do not begin that of this one.
KdeLine(f, key, value) ==
    LET name == <<"Proxy", "Settings">>
        hit(k) == f[k].key # NoValue /\ IsPrefix(f[k].key, key) /\ f[k].value # NoValue
    IN  \E h, i \in DOMAIN f :
            /\ InSection(f, h, i) /\ f[h].section = name
            /\ f[i] = Entry(key, value) /\ key # NoValue
            /\ \A k \in DOMAIN f \ {i} :
                  hit(k) => \E g \in DOMAIN f : InSection(f, g, k) /\ ~IsPrefix(f[g].section, name)

\* The file of KDE has the settings in force when the library is initialized.
KdeFilesRecord ==
    /\ NoUrl = NoValue
    /\ \A c \in Sessions :
          LET f == KdeFile(c.settings)
              s == c.settings
              scheme == c.url.scheme
              rules == Front(Separated(s.ignore))
              type == CASE "manual" \in s.ways -> "fixed" [] "script" \in s.ways -> "pac"
                        [] "detect" \in s.ways -> "wpad" [] "env" \in s.ways -> "env"
                        [] OTHER -> "none"
          IN  c.system = "linux" /\ Interface(c.env, f) = "kde" =>
                /\ Len(f) \in Nat /\ DOMAIN f = 1 .. Len(f)
                /\ KdeLine(f, <<"Proxy", "Type">>, type)
                /\ KdeLine(f, <<"Proxy", "Config", "Script">>, s.url)
                /\ KdeLine(f, KeyOf(scheme), IF s.host[scheme] = NoHost THEN NoValue
                                             ELSE ProxyOf(s, scheme))
                /\ KdeLine(f, <<"NoProxyFor">>, IF s.ignore = <<>> THEN NoValue ELSE rules)
                /\ ProxyOf(s, scheme) # NoValue /\ rules # NoValue

\* A name in angle brackets is a rule by itself, and no part of a host.
RulesWritten(symbols) ==
    \A c \in Sessions :
        LET byItself(rule) == rule \in Seq(symbols) /\ \A i \in DOMAIN rule :
                                  rule[i] \in SpecialRules => Len(rule) = 1
        IN  /\ c.url.host \in Seq(symbols \ SpecialRules)
            /\ c.override.list # NoList /\ ~Has(c.override.list, {","}) => byItself(c.override.list)
            /\ \A s \in SettingsOf(c) : \A i \in DOMAIN s.ignore : byItself(s.ignore[i])

\* What a script may return has one entry or more.
ListsTyped ==
    /\ Spare \in Nat
    /\ \A c \in Sessions : c.url.scheme \in DOMAIN SchemeLength
    /\ \A list \in Lists("linux") :
          list \in Seq([type : DOMAIN Types \cup {""}, port : Nat, length : Nat]) \ {<<>>}
    /\ \A list \in Lists("windows") :
          list \in Seq([type : DOMAIN SchemeLength \cup {""}, port : Nat, length : Nat]) \ {<<>>}
=============================================================================
