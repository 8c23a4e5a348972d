--------------------------- MODULE ConfigSources ---------------------------
(***************************************************************************)
(* What the interfaces of the configuration make of the settings of a      *)
(* desktop: the pure part of src/config_gnome2.c, _gnome3.c, _kde.c,       *)
(* _env.c, _win.c, _mac.c, src/util_linux.c and src/util_win.c.  The reads *)
(* that a getter takes one after the other are in SystemConfig.            *)
(*                                                                         *)
(* Settings are a record, of which an interface looks at the part that its *)
(* desktop has:                                                            *)
(*    ways    what is switched on: "detect", "script", "manual"            *)
(*    url     of the script, or NoUrl                                      *)
(*    same    one proxy for all schemes                                    *)
(*    host    for each scheme the proxy's host, or NoHost; for "any" the   *)
(*            one that Windows lists without a scheme                      *)
(*    port    for each scheme the proxy's port, 0 if there is none         *)
(*    caps    the schemes whose environment variable is in capitals        *)
(*    simple  hosts without a dot bypass the proxy                         *)
(*    ignore  the hosts that bypass the proxy, a sequence of texts         *)
(***************************************************************************)
EXTENDS BypassRules

CONSTANTS NoHost, NoUrl, NoValue,
          WholeList,    \* the text of a list, taken for a host
          TypedScheme   \* the scheme that is part of a host's text, or NoValue

NoProxy == [host |-> NoHost, port |-> 0]
ProxyOf(s, scheme) ==
    IF s.host[scheme] = NoHost THEN NoProxy ELSE [host |-> s.host[scheme], port |-> s.port[scheme]]

\* str_trim_end.
TrimEnd(text, symbol) ==
    SubSeq(text, 1, Max({0} \cup {i \in DOMAIN text : text[i] # symbol}))

\* The texts of a sequence, each with a comma behind it.
Separated(texts) ==
    LET upTo[i \in 0 .. Len(texts)] ==
            IF i = 0 THEN <<>> ELSE upTo[i - 1] \o Append(texts[i], ",")
    IN  upTo[Len(texts)]

\* The texts of a sequence that are not empty.
NonEmpty(texts) ==
    LET upTo[i \in 0 .. Len(texts)] ==
            CASE i = 0 -> <<>>
              [] i > 0 /\ texts[i] = <<>> -> upTo[i - 1]
              [] OTHER -> Append(upTo[i - 1], texts[i])
    IN  upTo[Len(texts)]

-----------------------------------------------------------------------------
\* get_desktop_env: the desktop that the environment variables of a session name,
\* the newest variable first.
DesktopEnv(e) ==
    LET gnome == IF e.gsettings THEN "gnome3" ELSE "gnome2"
        kde(old) == IF e.version # 0 THEN "kde4" ELSE old
        named == << IF e.current = "gnome" THEN "gnome3" ELSE "",
                    IF e.current = "kde" /\ e.version # 0
                    THEN IF e.version <= 4 THEN "kde4" ELSE "kde5" ELSE "",
                    CASE e.session = "gnome" -> gnome
                      [] e.session = "plasma" -> "kde4"
                      [] e.session = "kde" -> kde("kde3")
                      [] OTHER -> "",
                    CASE e.full = "gnome" -> gnome
                      [] e.full = "kde" -> kde("kde3")
                      [] OTHER -> "unknown" >>
        known == SelectSeq(named, LAMBDA d : d # "")
    IN  Head(known)

-----------------------------------------------------------------------------
\* A file of KDE is a sequence of lines: a header with a section's name, or a key
\* with its value.  Names are sequences of words.
Header(name) == [section |-> name, key |-> NoValue, value |-> NoValue]
Entry(key, value) == [section |-> <<>>, key |-> key, value |-> value]

\* Mutant: once a line was in the section, so are those of the sections after it.
ConfigValue_AllSections(file, section, key) ==
    LET within(i) == \E k \in 1 .. i - 1 : file[k].section # <<>> /\ IsPrefix(file[k].section, section)
        hits == {i \in DOMAIN file : /\ file[i].key # NoValue /\ IsPrefix(file[i].key, key)
                                     /\ file[i].value # NoValue /\ within(i)}
    IN  IF hits = {} THEN NoValue ELSE file[Min(hits)].value

\* get_config_value: the first line that has a value, with a key that the key in
\* question begins with, behind a header that the section's name begins with, or
\* behind none.
ConfigValue(file, section, key) ==
    LET headers(i) == {k \in 1 .. i - 1 : file[k].section # <<>>}
        within(i) == headers(i) = {} \/ IsPrefix(file[Max(headers(i))].section, section)
        hits == {i \in DOMAIN file : /\ file[i].key # NoValue /\ IsPrefix(file[i].key, key)
                                     /\ file[i].value # NoValue /\ within(i)}
    IN  IF hits = {} THEN NoValue ELSE file[Min(hits)].value

Kde(file, key) == ConfigValue(file, <<"Proxy", "Settings">>, key)
KeyOf(scheme) == IF scheme = "https" THEN <<"http", "s", "Proxy">> ELSE <<scheme, "Proxy">>

\* check_proxy_type.
KdeType(file, type) == Kde(file, <<"Proxy", "Type">>) = type

\* proxy_config_global_init on Linux: the interface of the desktop, if it is built
\* in and initializes, which that of KDE does not for a file that leaves all to
\* the environment variables; and otherwise these.
Interface(e, file) ==
    LET desktop == DesktopEnv(e)
    IN  CASE desktop = "gnome3" /\ e.loads -> "gnome3"
          [] desktop = "gnome2" /\ e.gconf /\ e.loads -> "gnome2"
          [] desktop \in {"kde3", "kde4", "kde5"} /\ e.loads /\ ~KdeType(file, "env") -> "kde"
          [] OTHER -> "env"

-----------------------------------------------------------------------------
\* The auto-config url, where a getter takes it in one read.
WinUrl(s) == IF "script" \in s.ways THEN s.url ELSE NoUrl
MacUrl(s) == IF "script" \in s.ways THEN s.url ELSE NoUrl
KdeUrl(file) ==
    LET url == Kde(file, <<"Proxy", "Config", "Script">>)
    IN  IF KdeType(file, "pac") /\ url # NoValue THEN url ELSE NoUrl

AutoConfigUrl(interface, s, file) ==
    CASE interface = "win" -> WinUrl(s)
      [] interface = "mac" -> MacUrl(s)
      [] interface = "kde" -> KdeUrl(file)
      [] interface = "env" -> NoUrl

\* get_winhttp_proxy_by_scheme, of the entries for each scheme, or of one without a
\* scheme, which is for http; if none is for the scheme, the text of the whole list.
WinListed(s, scheme) ==
    LET listed == {k \in DOMAIN s.host : s.host[k] # NoHost}
    IN  CASE scheme \in listed -> ProxyOf(s, scheme)
          [] listed = {} -> NoProxy
          [] listed = {"any"} -> ProxyOf(s, "any")
          [] OTHER -> [host |-> WholeList, port |-> 0]

\* The proxy for a scheme, where a getter takes it in one read; HTTP_PROXY does
\* not count.
WinProxy(s, scheme) == IF "manual" \in s.ways THEN WinListed(s, scheme) ELSE NoProxy
MacProxy(s, scheme) == ProxyOf(s, scheme)
EnvProxy(s, scheme) ==
    IF scheme \in s.caps /\ scheme = "http" THEN NoProxy ELSE ProxyOf(s, scheme)
KdeProxy(file, scheme) ==
    LET proxy == Kde(file, KeyOf(scheme))
    IN  IF KdeType(file, "fixed") /\ proxy # NoValue THEN proxy ELSE NoProxy

Proxy(interface, s, file, scheme) ==
    CASE interface = "win" -> WinProxy(s, scheme)
      [] interface = "mac" -> MacProxy(s, scheme)
      [] interface = "env" -> EnvProxy(s, scheme)
      [] interface = "kde" -> KdeProxy(file, scheme)

-----------------------------------------------------------------------------
\* proxy_config_gnome3_get_bypass_list: the size is that of the hosts before the
\* first empty one, with two characters more for each, and the text is cut to it.
Gnome3Ignored(hosts) ==
    LET empty == {i \in DOMAIN hosts : hosts[i] = <<>>}
        n == IF empty = {} THEN Len(hosts) ELSE Min(empty) - 1
        max == Len(Separated(SubSeq(hosts, 1, n))) + n
        text == Separated(hosts)
    IN  IF max = 0 THEN NoList
        ELSE TrimEnd(SubSeq(text, 1, Min({max - 1, Len(text)})), ",")

\* proxy_config_gnome2_get_bypass_list: empty hosts are left out.
Gnome2Ignored(hosts) ==
    LET rules == NonEmpty(hosts)
    IN  IF rules = <<>> THEN NoList ELSE TrimEnd(Separated(rules), ",")

\* proxy_config_mac_get_bypass_list, whether or not a proxy is switched on.
MacIgnored(s) ==
    LET rules == (IF s.simple THEN << <<"<local>">> >> ELSE <<>>) \o s.ignore
        text == TrimEnd(Separated(rules), ",")
    IN  IF text = <<>> THEN NoList ELSE text

WinIgnored(s) ==
    IF "manual" \in s.ways /\ s.ignore # <<>> THEN Front(Separated(s.ignore)) ELSE NoList
EnvIgnored(s) == IF s.ignore = <<>> THEN NoList ELSE TrimEnd(Separated(s.ignore), ",")
KdeIgnored(file) ==
    LET list == Kde(file, <<"NoProxyFor">>) IN IF list = NoValue THEN NoList ELSE list

\* The list of hosts to bypass, where a getter takes it in one read.
BypassList(interface, s, file) ==
    CASE interface = "win" -> WinIgnored(s)
      [] interface = "mac" -> MacIgnored(s)
      [] interface = "env" -> EnvIgnored(s)
      [] interface = "kde" -> KdeIgnored(file)

\* Whether discovery is switched on; that of GNOME is its mode.
AutoDiscover(interface, s, file) ==
    CASE interface = "env" -> FALSE
      [] interface = "kde" -> KdeType(file, "wpad")
      [] OTHER -> "detect" \in s.ways

\* get_url_from_host, of which the scheme it is passed is a name and not a url, so
\* that it counts for nothing.
UrlFromHost(proxy) ==
    LET typed == TypedScheme[proxy.host]
        scheme == IF typed = NoValue THEN "http" ELSE typed
    IN  [scheme |-> scheme, host |-> proxy.host,
         port |-> IF proxy.port = 0 THEN DefaultPort(scheme) ELSE proxy.port]
=============================================================================
