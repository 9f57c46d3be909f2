----------------------------- MODULE ProductPage -----------------------------
(***************************************************************************)
(* From the JSON of a product card to the columns of a product:            *)
(* apps/parser/goldapple/extractor.py, apps/parser/normalizer.py and       *)
(* apps/products.  Operators only; module PageParse runs them.             *)
(*                                                                         *)
(* A value that may be absent is <<>> or <<value>>; <<"">> is a text of    *)
(* spaces.  A long text is its lines, a line its pieces [word, sep], sep   *)
(* being what follows the piece: ", ", ",", " - " or "".  The word "*" is  *)
(* any that has no letter, only what strip takes off (normalizer.py:147).  *)
(***************************************************************************)
EXTENDS Integers, Sequences, SequencesExt

NotANumber == -1     \* a price or a measure that is no number

\* The pieces of a line.
Pieces == [word : STRING, sep : STRING]

\* A list without its elements that are x.
Dropping(list, x) ==
  FlattenSeq([i \in DOMAIN list |-> IF list[i] = x THEN <<>> ELSE <<list[i]>>])

\* What was found first, as Python's or.
Or(value, other) == IF value # <<>> THEN value ELSE other

-----------------------------------------------------------------------------
(* extractor.py                                                            *)

\* article_from_link: a link without digits in front has none.
ArticleFromLink(link) == link.article

Variants == [itemId : Seq(STRING), units : Seq(Int), amount : Seq(Int), image : Seq(STRING)]
NoVariant == [itemId |-> <<>>, units |-> <<>>, amount |-> <<>>, image |-> <<>>]

\* _find_variant: the first variant with this article, or the first of all.
FindVariant(card, article) ==
  LET found == {i \in DOMAIN card.variants : card.variants[i].itemId = article}
  IN  IF found # {} THEN card.variants[Min(found)]
      ELSE IF card.variants # <<>> THEN Head(card.variants) ELSE NoVariant

Sections == [type : STRING, text : STRING, title : Seq(STRING), subtitle : Seq(STRING),
             content : Seq(Seq(Pieces)), attributes : Seq([key : STRING, value : Seq(STRING)])]
NoSection == [type |-> "", text |-> "", title |-> <<>>, subtitle |-> <<>>,
              content |-> <<>>, attributes |-> <<>>]

\* _find_section: by type or by heading, the first one.
FindSection(sections, isWanted(_)) ==
  LET found == {i \in DOMAIN sections : isWanted(sections[i])}
  IN  IF found # {} THEN sections[Min(found)] ELSE NoSection

SectionOfType(card, type) == FindSection(card.sections, LAMBDA s : s.type = type)
SectionNamed(card, text) == FindSection(card.sections, LAMBDA s : s.text = text)

\* ATTRIBUTE_FIELDS: of a key that is repeated the last value stays.
Attribute(attributes, key) ==
  FoldLeft(LAMBDA value, a : IF a.key = key THEN a.value ELSE value, <<>>, attributes)

\* The template of the picture, with its size and format.
ImageLink(variant) ==
  IF variant.image \in {<<>>, <<"">>} THEN <<>> ELSE variant.image

\* What is in a card, with the measure, the price and the picture of one
\* variant; an attribute and a named section go by the name of their field.
FieldsOfCard(card, variant, article) ==
  LET description == SectionOfType(card, "Description")
      brand       == SectionOfType(card, "Brand")
      attributes  == description.attributes
  IN  [article |-> article,
       name |-> description.title, brand |-> card.brand,
       product_type |-> Attribute(attributes, "product_type"),
       product_type_detailed |-> card.productType,
       purpose |-> Attribute(attributes, "purpose"),
       hair_type |-> Attribute(attributes, "hair_type"),
       skin_type |-> Attribute(attributes, "skin_type"),
       application_area |-> Attribute(attributes, "application_area"),
       target_audience |-> Attribute(attributes, "target_audience"),
       characteristics |-> attributes,
       description |-> description.content, brand_country |-> brand.subtitle,
       brand_description |-> brand.content,
       usage |-> SectionNamed(card, "usage").content,
       ingredients |-> SectionNamed(card, "ingredients").content,
       additional_info |-> SectionNamed(card, "additional_info").content,
       measure_type |-> card.measure, measure_unit |-> card.unit,
       measure_value |-> variant.units,
       price_rub |-> variant.amount, image_link |-> ImageLink(variant)]

\* Mutant of Extract: the article of the link, whatever variant is taken.
ExtractLinkArticle(card, link) ==
  LET variant == FindVariant(card, Or(ArticleFromLink(link), card.id))
  IN  FieldsOfCard(card, variant, Or(ArticleFromLink(link), Or(variant.itemId, card.id)))

\* extract, of a card that has its data: the article is the variant's own.
Extract(card, link) ==
  LET variant == FindVariant(card, Or(ArticleFromLink(link), card.id))
  IN  FieldsOfCard(card, variant, Or(variant.itemId, Or(card.id, ArticleFromLink(link))))

-----------------------------------------------------------------------------
(* normalizer.py                                                           *)

\* clean_text
CleanText(value) == IF value = <<"">> THEN <<>> ELSE value

\* html_to_text: the lines that are not empty.
HtmlToText(lines) == Dropping(lines, <<>>)

\* INGREDIENT_SEPARATOR: a comma without a space is part of a name.
Separates(piece) == piece.sep \in {", ", " - "}

\* A line cut at its separators; a name without letters is dropped.
Items(line) ==
  LET cut(items, i) ==
        IF i > 1 /\ ~Separates(line[i - 1])
        THEN [items EXCEPT ![Len(items)] = Append(@, line[i].word)]
        ELSE Append(items, <<line[i].word>>)
  IN  Dropping(FoldLeftDomain(cut, <<>>, line), <<"*">>)

\* Mutant of SplitIngredients: the explanations under the composition are
\* taken for names as well.
SplitAllLines(text) ==
  IF text = <<>> THEN <<>> ELSE FlattenSeq([i \in DOMAIN text |-> Items(text[i])])

\* split_ingredients: of the first line only.
SplitIngredients(text) == IF text = <<>> THEN <<>> ELSE Items(Head(text))

\* to_decimal
ToDecimal(value) == IF value = <<NotANumber>> THEN <<>> ELSE value

\* to_json: a dict of the attributes, as a function.
ToJson(attributes) ==
  IF attributes = <<>> THEN <<>>
  ELSE <<[key \in {attributes[i].key : i \in DOMAIN attributes} |-> Attribute(attributes, key)]>>

TEXT_FIELDS == {"name", "article", "brand", "product_type", "product_type_detailed", "purpose",
                "hair_type", "skin_type", "application_area", "target_audience",
                "brand_country", "measure_type", "measure_unit", "image_link"}
HTML_FIELDS == {"description", "usage", "ingredients", "additional_info", "brand_description"}
NUMBER_FIELDS == {"measure_value", "price_rub"}

\* normalize, with image_key, which the uploader adds.
Normalize(raw) ==
  LET list == SplitIngredients(HtmlToText(raw.ingredients))
  IN  [f \in DOMAIN raw \cup {"ingredients_list", "ingredients_count", "image_key"} |->
         CASE f \in TEXT_FIELDS -> CleanText(raw[f])
           [] f \in HTML_FIELDS -> HtmlToText(raw[f])
           [] f \in NUMBER_FIELDS -> ToDecimal(raw[f])
           [] f = "characteristics" -> ToJson(raw[f])
           [] f = "ingredients_list" -> list
           [] f = "ingredients_count" -> IF list = <<>> THEN <<>> ELSE <<Len(list)>>
           [] f = "image_key" -> <<>>]

-----------------------------------------------------------------------------
(* The product: its columns that are not empty, a function of their names  *)

\* CRITICAL_FIELDS: the fields of ProductData.
CRITICAL_FIELDS == {"name", "article", "image_key", "product_type", "product_type_detailed",
                    "measure_value", "measure_unit", "price_rub", "ingredients_list"}

\* is_empty
IsEmpty(value) == value = <<>>

\* ParsedProduct.to_dict: what was found.
ToDict(parsed) == {f \in DOMAIN parsed : ~IsEmpty(parsed[f])}

\* Mutant of MissingFields: a composition does not count.
MissingButIngredients(columns) == CRITICAL_FIELDS \ ({"ingredients_list"} \cup DOMAIN columns)

\* missing_fields
MissingFields(columns) == CRITICAL_FIELDS \ DOMAIN columns

\* Mutant of UpdateWith: empty fields are written too.
UpdateWithAll(columns, parsed) ==
  [f \in ToDict(parsed) \cup (DOMAIN columns \ DOMAIN parsed) |->
     IF f \in ToDict(parsed) THEN parsed[f] ELSE columns[f]]

\* The update of the row: what was not found does not replace what the product has.
UpdateWith(columns, parsed) ==
  [f \in ToDict(parsed) \cup DOMAIN columns |->
     IF f \in ToDict(parsed) THEN parsed[f] ELSE columns[f]]
=============================================================================
