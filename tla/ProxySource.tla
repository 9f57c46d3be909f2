----------------------------- MODULE ProxySource -----------------------------
(***************************************************************************)
(* Where a list of proxies comes from (apps/parser/proxy): the file        *)
(* proxies.txt, the table of freeproxyupdate.com, the key parser:proxies   *)
(* in Redis.  Operators only.                                              *)
(*                                                                         *)
(* An address is a text protocol://host:port.  Its host is the parts       *)
(* between its colons, in small letters: <<>> is a missing host, several   *)
(* parts are an IPv6 address, which urlsplit takes in brackets only.       *)
(* Port 0 is one that is missing or no number.                             *)
(***************************************************************************)
EXTENDS Naturals, Sequences, SequencesExt

ProxyProtocols == {"http", "socks5"}
Addresses == [protocol : STRING, brackets : BOOLEAN, host : Seq(STRING), port : Nat]

\* Lines of the file, and rows of the table with their number of cells.
Lines == [comment : BOOLEAN, address : Addresses]
Rows == [cells : Nat, address : Addresses]

\* parse_proxy: anything else is a ValueError.  Without brackets the host of
\* an IPv6 address ends at its first colon, and what follows is no port.
IsProxy(address) ==
  /\ address.protocol \in ProxyProtocols
  /\ address.host # <<>> /\ address.port # 0
  /\ address.brackets \/ Len(address.host) = 1

\* The Proxy it returns: urlsplit takes the brackets off its hostname.
ParseProxy(address) ==
  [protocol |-> address.protocol, host |-> address.host, port |-> address.port]

\* proxies[proxy] = None: a key that is there keeps its place.
Add(proxies, p) == IF Contains(proxies, p) THEN proxies ELSE Append(proxies, p)

\* A line of the file: a comment or an empty line is skipped, any other has
\* to be a proxy.
FileIsGood(lines) == \A i \in DOMAIN lines : lines[i].comment \/ IsProxy(lines[i].address)
LoadFromFile(lines) ==
  FoldLeft(LAMBDA proxies, line :
             IF line.comment THEN proxies ELSE Add(proxies, ParseProxy(line.address)),
           <<>>, lines)

\* SITE_PROTOCOLS; another protocol is skipped.
SchemeOf(protocol) == IF protocol = "https" THEN "http" ELSE protocol
AddressIn(row) == [row.address EXCEPT !.protocol = SchemeOf(@)]

\* parse_site_html: a row that is short or is no proxy is skipped.
IsGoodRow(row) == row.cells >= 4 /\ IsProxy(AddressIn(row))
ParseSiteHtml(rows) ==
  FoldLeft(LAMBDA proxies, row :
             IF IsGoodRow(row) THEN Add(proxies, ParseProxy(AddressIn(row))) ELSE proxies,
           <<>>, rows)

\* Proxy.server: the address of a proxy, without brackets.
Server(proxy) ==
  [protocol |-> proxy.protocol, brackets |-> FALSE, host |-> proxy.host, port |-> proxy.port]

\* save_proxies writes addresses; load_proxies parses each again, and skips
\* those that do not parse: an IPv6 address does not, once it was saved.
SaveProxies(list) == [i \in DOMAIN list |-> Server(list[i])]
LoadProxies(saved) ==
  FlattenSeq([i \in DOMAIN saved |->
                IF IsProxy(saved[i]) THEN <<ParseProxy(saved[i])>> ELSE <<>>])

\* Mutant of Without: the last proxy is taken off, whichever is bad.
WithoutLast(list, proxy) == IF Contains(list, proxy) THEN Front(list) ELSE list

\* mark_bad: list.remove of a proxy that is there.
Without(list, proxy) == IF Contains(list, proxy) THEN RemoveFirst(list, proxy) ELSE list
=============================================================================
