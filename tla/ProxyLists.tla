----------------------------- MODULE ProxyLists -----------------------------
(***************************************************************************)
(* The lists of proxies as texts: convert_proxy_list_to_uri_list of        *)
(* src/util.c, for what a script returned, and its counterpart for WinHTTP *)
(* in src/util_win.c.                                                      *)
(*                                                                         *)
(* A list is a sequence of entries, of which only the type, the port and   *)
(* the length of the host with its port matter.  The text that is written  *)
(* is a sequence of uris, of which only the lengths of their parts do.     *)
(* Both functions allocate the length of the list and Spare characters     *)
(* more and count what they write.  Most parts they append only as far as  *)
(* the count leaves room, in the arithmetic of size_t: once the count is   *)
(* past the end, without limit.                                            *)
(***************************************************************************)
EXTENDS Naturals, SequencesExt

CONSTANTS Spare,    \* characters for schemes and separators
          NoScheme  \* NULL

SchemeLength == [http |-> 4, https |-> 5, socks |-> 5, socks4 |-> 6, socks5 |-> 6, direct |-> 6,
                 ftp |-> 3]

\* The types of a script's entries: their length up to the host, and their scheme.
\* An entry with none of them has the type "".
Types ==
    [PROXY  |-> [length |-> 6, scheme |-> NoScheme], DIRECT |-> [length |-> 6, scheme |-> "direct"],
     HTTP   |-> [length |-> 5, scheme |-> "http"],   HTTPS  |-> [length |-> 6, scheme |-> "https"],
     SOCKS  |-> [length |-> 6, scheme |-> "socks"],  SOCKS4 |-> [length |-> 7, scheme |-> "socks4"],
     SOCKS5 |-> [length |-> 7, scheme |-> "socks5"]]
Keyword(type) == IF type \in DOMAIN Types THEN Types[type] ELSE [length |-> 0, scheme |-> NoScheme]

\* get_port_scheme.
PortScheme(port, default) ==
    CASE port = 80 -> "http"
      [] port = 443 -> "https"
      [] port = 1080 -> "socks"
      [] port = 21 -> "ftp"
      [] OTHER -> default

\* The scheme of an entry: by its type, or the default, or by its port.
SchemeOf(entry, default) ==
    CASE Keyword(entry.type).scheme # NoScheme -> Keyword(entry.type).scheme
      [] Keyword(entry.type).scheme = NoScheme /\ default # NoScheme -> default
      [] OTHER -> PortScheme(IF entry.port = 0 THEN 80 ELSE entry.port, "http")

\* The sums of the first 0, 1, 2, ... of a sequence of numbers.
Sums(numbers) ==
    LET sum[i \in 0 .. Len(numbers)] == IF i = 0 THEN 0 ELSE sum[i - 1] + numbers[i] IN sum

\* The length of the list as a text, its separators included.
TextLength(lengths) == Sums(lengths)[Len(lengths)] + Len(lengths) - 1

\* The lengths of the parts of a uri, with the comma behind all but the last.
UriOf(entry, scheme, last) ==
    [scheme |-> SchemeLength[scheme], mark |-> 3, host |-> entry.length,
     comma |-> IF last THEN 0 ELSE 1]
UrisOf(list, schemes) == [i \in DOMAIN list |-> UriOf(list[i], schemes[i], i = Len(list))]
LengthOf(uri) == uri.scheme + uri.mark + uri.host + uri.comma
Total(lengths) == Sums(lengths)[Len(lengths)]

\* strncat with the room that the count leaves.
Kept(length, max, count) ==
    IF count < max /\ max - count - 1 < length THEN max - count - 1 ELSE length

\* What is counted for the uris: each part of them, and the scheme once or more often.
Counted(uris, times) == [i \in DOMAIN uris |-> LengthOf(uris[i]) + (times - 1) * uris[i].scheme]

\* What of the uris is written into max characters, and whether it runs past them.  The
\* function for WinHTTP counts right, and appends the scheme whole; the one for scripts
\* counts the scheme twice.  Both append the host whole.
Written(uris, max, times) ==
    LET count(i) == Sums(Counted(uris, times))[i - 1]
        kept(i) == [uris[i] EXCEPT
                       !.scheme = IF times = 1 THEN @ ELSE Kept(@, max, count(i)),
                       !.mark = Kept(@, max, count(i) + uris[i].scheme),
                       !.comma = Kept(@, max, count(i + 1) - @)]
        text == [i \in DOMAIN uris |-> kept(i)]
    IN  [uris |-> text, overrun |-> Total([i \in DOMAIN uris |-> LengthOf(text[i])]) >= max]

-----------------------------------------------------------------------------
\* What is allocated for the list of a script, and the schemes of its entries.
ScriptRoom(list) ==
    Spare + TextLength([i \in DOMAIN list |-> Keyword(list[i].type).length + list[i].length])
ScriptSchemes(list, default) == [i \in DOMAIN list |-> SchemeOf(list[i], default)]

\* The same for WinHTTP.  An entry may name its scheme, as in "https=host"; without one
\* it is for http.
WinRoom(list) ==
    LET named(entry) == IF entry.type = "" THEN 0 ELSE SchemeLength[entry.type] + 1
    IN  Spare + TextLength([i \in DOMAIN list |-> named(list[i]) + list[i].length])
WinSchemes(list) == [i \in DOMAIN list |-> IF list[i].type = "" THEN "http" ELSE list[i].type]

\* Mutant: no more characters than the list has.
UriList_NoSpare(list, default) ==
    Written(UrisOf(list, ScriptSchemes(list, default)), ScriptRoom(list) - Spare, 2)

\* convert_proxy_list_to_uri_list.
UriList(list, default) ==
    Written(UrisOf(list, ScriptSchemes(list, default)), ScriptRoom(list), 2)

\* convert_winhttp_proxy_list_to_uri_list.
WinUriList(list) == Written(UrisOf(list, WinSchemes(list)), WinRoom(list), 1)
=============================================================================
