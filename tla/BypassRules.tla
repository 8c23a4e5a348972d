---------------------------- MODULE BypassRules ----------------------------
(***************************************************************************)
(* Whether a url bypasses the proxy: should_bypass_proxy and what it calls *)
(* in src/util.c and src/net_util.c.                                       *)
(*                                                                         *)
(* A text is a sequence of symbols.  Most symbols are characters; a ':'    *)
(* with the port behind it, a '/' with the prefix length behind it, an     *)
(* address and a name in angle brackets are one symbol each.  Case is      *)
(* left out: every comparison here ignores it.  An address of IPv4 begins  *)
(* with three digits, one of IPv6 with a colon, and no path of a url has   *)
(* an '@' in it.  A binary number is the set of its bits that are one,     *)
(* numbered from the most significant one on.  The length of a text is     *)
(* that in symbols.                                                        *)
(***************************************************************************)
EXTENDS Integers, SequencesExt

CONSTANTS PortOf,      \* the number of each port symbol
          PrefixOf,    \* the number of each prefix symbol
          Ipv4, Ipv6,  \* the number that each address symbol stands for
          Bits4, Bits6, ByteBits, \* width of an address and of a byte
          Loopback,    \* the texts of the local host
          HostMax,     \* HOST_MAX, the size of the buffer of a rule
          NoList       \* NULL, in place of a list of rules

\* The rules that are a name in angle brackets.
SpecialRules == {"<local>", "<-loopback>"}

ASSUME BypassRulesAssumption ==
    /\ Bits4 \in Nat /\ Bits6 \in Nat /\ ByteBits \in Nat \ {0}
    /\ HostMax \in Nat /\ HostMax > 2
    /\ \A symbol \in {"*", ".", ",", "[", "]"} \cup SpecialRules :
          symbol \notin DOMAIN PortOf \cup DOMAIN PrefixOf \cup DOMAIN Ipv4 \cup DOMAIN Ipv6

\* The symbols in which a ':' or a '.' occurs.
Colons == DOMAIN PortOf \cup DOMAIN Ipv6
Dots == {"."} \cup DOMAIN Ipv4

Positions(text, symbols) == {i \in DOMAIN text : text[i] \in symbols}
Has(text, symbols) == Positions(text, symbols) # {}
FirstOf(text, symbols) == CHOOSE i \in Positions(text, symbols) :
                              \A k \in Positions(text, symbols) : i <= k

\* str_wildcard_match, called with the pattern from position j on: the positions
\* from which the text matches it, past its end included.
WildcardMatch(str, pattern) ==
    LET match[j \in 1 .. Len(pattern) + 1] ==
            {i \in 1 .. Len(str) + 1 :
                CASE i > Len(str) -> j > Len(pattern) \/ pattern[j] = "*"
                  [] i <= Len(str) /\ j > Len(pattern) -> FALSE
                  [] i <= Len(str) /\ j <= Len(pattern) /\ pattern[j] = "*" ->
                        j = Len(pattern) \/ \E k \in i .. Len(str) : k \in match[j + 1]
                  [] OTHER -> str[i] = pattern[j] /\ i + 1 \in match[j + 1]}
    IN  1 \in match[1]

\* strip_host_port: the text up to its port, and the port, 0 if there is none.
StripPort(text) ==
    LET bracketed == text # <<>> /\ text[1] = "["
        closed == {i \in Positions(text, DOMAIN PortOf) : i > 1 /\ text[i - 1] = "]"}
        at == CHOOSE i \in closed : \A k \in closed : i <= k
        cut(i) == [text |-> SubSeq(text, 1, i - 1),
                   port |-> IF text[i] \in DOMAIN PortOf THEN PortOf[text[i]] ELSE 0]
    IN  CASE bracketed /\ closed # {} -> cut(at)
          [] ~bracketed /\ Has(text, Colons) -> cut(FirstOf(text, Colons))
          [] OTHER -> [text |-> text, port |-> 0]

\* strip_host_ipv6_brackets.
StripBrackets(host) ==
    IF Len(host) > 2 /\ host[1] = "["
    THEN LET rest == Tail(host)
         IN  IF Has(rest, {"]"}) THEN RemoveAt(rest, FirstOf(rest, {"]"})) ELSE rest
    ELSE host

\* get_scheme_default_port.
DefaultPort(scheme) ==
    CASE scheme = "http" -> 80
      [] scheme = "https" -> 443
      [] scheme = "socks" -> 1080
      [] scheme = "ftp" -> 21
      [] OTHER -> 0

-----------------------------------------------------------------------------
\* A rule in CIDR notation: the text before the first '/', and atoi of what is
\* behind it, out of range where the digits of an address of IPv4 follow.
Cidr(rule) ==
    LET at == FirstOf(rule, DOMAIN PrefixOf)
    IN  [ip |-> SubSeq(rule, 1, at - 1),
         prefix |-> IF at < Len(rule) /\ rule[at + 1] \in DOMAIN Ipv4
                    THEN -1 ELSE PrefixOf[rule[at]]]

IsAddress(text, family) == Len(text) = 1 /\ text[1] \in DOMAIN family

\* The shifts of C in a number of some bits.
ShiftRight(number, n, bits) == {i \in 1 .. bits : i - n \in number}
ShiftLeft(number, n, bits) == {i \in 1 .. bits : i + n \in number}

\* is_ipv4_in_cidr_range: the bits that the mask leaves are equal.
InRange4(ip, rule) ==
    LET cidr == Cidr(rule)
        all == 1 .. Bits4
        mask == IF cidr.prefix >= Bits4 THEN all ELSE all \ ShiftRight(all, cidr.prefix, Bits4)
    IN  /\ IsAddress(ip, Ipv4) /\ cidr.prefix \in 0 .. Bits4 /\ IsAddress(cidr.ip, Ipv4)
        /\ Ipv4[ip[1]] \cap mask = Ipv4[cidr.ip[1]] \cap mask

\* A byte of an address, the most significant being byte 0.
Byte(address, k) == {i \in 1 .. ByteBits : ByteBits * k + i \in address}

\* is_ipv6_in_cidr_range: whole bytes, then the bits left, of which the mask is
\* a byte shifted left.
InRange6(ip, rule) ==
    LET cidr == Cidr(rule)
        checkBytes == cidr.prefix \div ByteBits
        checkBits == cidr.prefix % ByteBits
        mask == ShiftLeft(1 .. ByteBits, ByteBits - checkBits, ByteBits)
        byte(text, k) == Byte(Ipv6[text[1]], k)
    IN  /\ IsAddress(ip, Ipv6) /\ cidr.prefix \in 0 .. Bits6 /\ IsAddress(cidr.ip, Ipv6)
        /\ \A k \in 0 .. checkBytes - 1 : byte(ip, k) = byte(cidr.ip, k)
        /\ checkBits # 0 =>
              SymDiff(byte(ip, checkBytes), byte(cidr.ip, checkBytes)) \cap mask = {}

-----------------------------------------------------------------------------
\* A url has a scheme, and a host that may carry a port.  get_url_host leaves
\* out what is before and behind the host.

\* The local variables of should_bypass_proxy before the first rule.
Before(url) ==
    LET host == StripPort(url.host)
    IN  [host |-> host.text, host_port |-> host.port, bypass_rule |-> <<>>,
         should_bypass |-> host.text \in Loopback, overrun |-> FALSE]

\* Mutant: a rule that matches bypasses the proxy whatever its port.
Judge_AnyPort(url, v, port) == [v EXCEPT !.should_bypass = TRUE]

\* A rule that matches the host of the url, with a port or with 0; the port of
\* the url is inferred from its scheme, and kept, if a rule asks for it.
Judge(url, v, port) ==
    LET inferred == IF port # 0 /\ v.host_port = 0 THEN DefaultPort(url.scheme) ELSE v.host_port
    IN  [v EXCEPT !.host_port = inferred, !.should_bypass = (port = 0 \/ port = inferred)]

\* A rule as it is copied: one longer than the buffer is cut.
Copied(rule) == IF Len(rule) > HostMax - 1 THEN SubSeq(rule, 1, HostMax - 2) ELSE rule

\* One turn of the loop of should_bypass_proxy.  The rule is appended to
\* bypass_rule, which nothing clears between the turns, as far as the rule goes and
\* not as far as the buffer does.
ApplyRule(url, v, rule) ==
    LET start == Before(url)
        isLocal == start.host \in Loopback
        isSimple == ~Has(start.host, Dots)
        dotted == IF rule # <<>> /\ rule[1] = "." /\ Len(v.bypass_rule) < HostMax - 1
                  THEN <<"*">> ELSE <<>>
        buffer == v.bypass_rule \o dotted \o Copied(rule)
        bare == StripPort(buffer)
        cidr == Has(buffer, DOMAIN PrefixOf)
        ranged == LET host == StripBrackets(v.host)
                  IN  [v EXCEPT !.bypass_rule = buffer, !.host = host,
                                !.should_bypass = @ \/ InRange4(host, buffer) \/ InRange6(host, buffer)]
        matched == LET w == [v EXCEPT !.bypass_rule = bare.text]
                   IN  IF WildcardMatch(v.host, bare.text) THEN Judge(url, w, bare.port) ELSE w
        judged == IF cidr THEN ranged ELSE matched
    IN  [judged EXCEPT !.overrun = @ \/ Len(buffer) >= HostMax, !.should_bypass =
            CASE isLocal /\ judged.bypass_rule = <<"<-loopback>">> -> FALSE
              [] isSimple /\ judged.bypass_rule = <<"<local>">> -> TRUE
              [] OTHER -> @]

\* The pieces of a list of rules between its commas.
Rules(list) ==
    LET upTo[i \in 0 .. Len(list)] ==
            CASE i = 0 -> << <<>> >>
              [] i > 0 /\ list[i] = "," -> Append(upTo[i - 1], <<>>)
              [] OTHER -> [upTo[i - 1] EXCEPT ![Len(upTo[i - 1])] = Append(@, list[i])]
    IN  upTo[Len(list)]

\* should_bypass_proxy: what it may answer, which is anything once a rule was
\* written past the end of its buffer.
Bypasses(url, list) ==
    LET rules == Rules(list)
        after[i \in 0 .. Len(rules)] ==
            IF i = 0 THEN Before(url) ELSE ApplyRule(url, after[i - 1], rules[i])
        final == IF list = NoList THEN Before(url) ELSE after[Len(rules)]
    IN  IF final.overrun THEN BOOLEAN ELSE {final.should_bypass}

-----------------------------------------------------------------------------
\* What a rule says by its form, apart from how it is found out.

\* A text is of the form of a pattern: the symbols of the pattern cover the text,
\* each character itself and each '*' any stretch of it.
OfForm(text, pattern) ==
    \E cut \in [1 .. Len(pattern) + 1 -> 0 .. Len(text)] :
        /\ cut[1] = 0 /\ cut[Len(pattern) + 1] = Len(text)
        /\ \A j \in DOMAIN pattern :
              IF pattern[j] = "*" THEN cut[j] <= cut[j + 1]
              ELSE cut[j + 1] = cut[j] + 1 /\ text[cut[j + 1]] = pattern[j]

\* The leading bits of two addresses agree.
SameNetwork(a, b, bits, prefix) ==
    prefix \in 0 .. bits /\ \A i \in 1 .. prefix : i \in a <=> i \in b

UrlPort(url) ==
    LET stated == StripPort(url.host).port IN IF stated = 0 THEN DefaultPort(url.scheme) ELSE stated

\* The pattern of a rule and its port.
PatternOf(rule) == StripPort(IF rule # <<>> /\ rule[1] = "." THEN <<"*">> \o rule ELSE rule)

\* An address of IPv6, in its brackets.
IsLiteral6(host) == IsAddress(StripBrackets(host), Ipv6)

\* "bypass", "proxy", or "nothing" about the url.  "<local>" is for the hosts without
\* a dot that are no addresses.
RuleSays(rule, url) ==
    LET host == StripPort(url.host).text
        address == StripBrackets(host)
        pattern == PatternOf(rule)
        network == Cidr(rule)
        inside == \E family \in {[of |-> Ipv4, bits |-> Bits4], [of |-> Ipv6, bits |-> Bits6]} :
                      /\ IsAddress(address, family.of) /\ IsAddress(network.ip, family.of)
                      /\ SameNetwork(family.of[address[1]], family.of[network.ip[1]],
                                     family.bits, network.prefix)
    IN  CASE Has(rule, DOMAIN PrefixOf) -> IF inside THEN "bypass" ELSE "nothing"
          [] rule = <<"<local>">> -> IF Has(host, Dots) \/ IsLiteral6(host) THEN "nothing" ELSE "bypass"
          [] rule = <<"<-loopback>">> -> IF host \in Loopback THEN "proxy" ELSE "nothing"
          [] OTHER -> IF ~OfForm(host, pattern.text) THEN "nothing"
                  ELSE IF pattern.port \in {0, UrlPort(url)} THEN "bypass" ELSE "proxy"

\* The local host bypasses the proxy unless a rule says otherwise.
Verdict(said, url) ==
    said = "bypass" \/ (said = "nothing" /\ StripPort(url.host).text \in Loopback)

\* Where the code departs from that.  str_wildcard_match takes a text that ends where
\* a '*' of the pattern begins for a match, whatever follows the '*'; and the test for
\* "<local>" looks for a dot, which an address of IPv6 does not have.
EndsEarly(text, pattern) ==
    \E n \in 0 .. Len(pattern) - 1 :
        /\ pattern[n + 1] = "*" /\ (n = 0 \/ pattern[n] # "*")
        /\ OfForm(text, SubSeq(pattern, 1, n))

Departs(rule, url) ==
    LET host == StripPort(url.host).text
    IN  /\ RuleSays(rule, url) = "nothing"
        /\ IF rule = <<"<local>">> THEN IsLiteral6(host)
           ELSE ~Has(rule, DOMAIN PrefixOf) /\ EndsEarly(host, PatternOf(rule).text)

\* The rule, and the '*' before a dot, fit into the buffer.
FitsBuffer(rule) ==
    Len(rule) + (IF rule # <<>> /\ rule[1] = "." THEN 1 ELSE 0) < HostMax
=============================================================================
