----------------------------- MODULE MCServices ------------------------------
(***************************************************************************)
(* Instances of Accounts and PageParse for TLC.  They share no state: a    *)
(* behaviour moves one of the two, its subject.                            *)
(***************************************************************************)
EXTENDS Accounts, PageParse

VARIABLE subject

Init == AccountsInit /\ PageInit /\ subject \in {"accounts", "pages"}

Next ==
  \/ subject = "accounts" /\ AccountsNext /\ UNCHANGED <<pageVars, subject>>
  \/ subject = "pages" /\ PageNext /\ UNCHANGED <<accountVars, subject>>

Spec == Init /\ [][Next]_<<accountVars, pageVars, subject>>

MCSpinsCount == [p \in Packages |-> 1]
Symmetric == Permutations(Requests)

-----------------------------------------------------------------------------
(* Two links, one of them to a site without a strategy                     *)

Shop == [host |-> "goldapple.ru", article |-> <<"100">>]
Elsewhere == [host |-> "example.com", article |-> <<>>]
MCLinks == {Shop, Elsewhere}

Variant(article, units, amount) ==
  [itemId |-> <<article>>, units |-> <<units>>, amount |-> <<amount>>, image |-> <<article>>]

Piece(word, sep) == [word |-> word, sep |-> sep]
Composition ==
  <<<<Piece("aqua", ", "), Piece("1", ","), Piece("2-hexanediol", " - "), Piece("*", ", "),
      Piece("*", ","), Piece("parfum", "")>>,
    <<Piece("explanation", "")>>>>

Description == [NoSection EXCEPT !.type = "Description", !.title = <<"cream">>,
                  !.attributes = <<[key |-> "product_type", value |-> <<"cream">>]>>]
Contents(lines) == [NoSection EXCEPT !.text = "ingredients", !.content = lines]

Card(sections, variants) ==
  [id |-> <<"100">>, brand |-> <<"brand">>, productType |-> <<"face cream">>,
   measure |-> <<"volume">>, unit |-> <<"ml">>, sections |-> sections, variants |-> variants]

\* A whole card; one whose only variant is another article, without a price;
\* one without a composition; one without anything.
MCCards ==
  (Shop :> {Card(<<Description, Contents(Composition)>>,
                 <<Variant("200", 100, 900), Variant("100", 50, 500)>>),
            Card(<<Contents(<<<<>>>> \o Composition), Description>>,
                 <<Variant("200", 100, NotANumber)>>),
            Card(<<Description>>, <<Variant("100", 50, 500)>>),
            Card(<<>>, <<>>)})
  @@ (Elsewhere :> {})

Address(host, protocol) ==
  [protocol |-> protocol, brackets |-> FALSE, host |-> <<host>>, port |-> 80]
InBrackets(host) == [Address("", "http") EXCEPT !.brackets = TRUE, !.host = host]
MCFileLines ==
  <<[comment |-> TRUE, address |-> Address("", "")],
    [comment |-> FALSE, address |-> Address("a", "http")]>>

\* No row; two protocols of one address, and an IPv6 address among them; rows
\* that are skipped, and one of the file; IPv6 only, one without brackets.
Row(address) == [cells |-> 4, address |-> address]
MCSiteTables ==
  {<<>>,
   <<Row(InBrackets(<<"2001", "db8">>)), Row(Address("b", "https")), Row(Address("b", "http")),
     Row(Address("c", "socks5"))>>,
   <<Row(Address("d", "socks4")), [Row(Address("d", "http")) EXCEPT !.cells = 3],
     Row(Address("a", "http"))>>,
   <<Row([InBrackets(<<"2001", "db9">>) EXCEPT !.brackets = FALSE]),
     Row(InBrackets(<<"2001", "db8">>))>>}

\* The theorem about the proxies a task starts with supposes this.
ASSUME FileAddsProxies == FileProxies # <<>>
=============================================================================
