----------------------------- MODULE PdfDocument -----------------------------
(***************************************************************************)
(* What a PDF is made of (apps/pdf_generation): the answers of all steps   *)
(* joined into one analysis, the template with its data, the flowables     *)
(* that ReportLab prints, and the price of the analysis.  Operators only.  *)
(*                                                                         *)
(* An answer of module AnalysisSteps comes with the number of its step, as *)
(* save_step_result keeps it.  A field of the template is <<name, element  *)
(* number>>, with number 0 for the fields of the cover; texts the code     *)
(* builds are tuples of what they are built from.                          *)
(***************************************************************************)
EXTENDS Integers, Sequences, SequencesExt

-----------------------------------------------------------------------------
(* One analysis from the answers of the steps                              *)

\* Mutant of PdfAnalysis: the elements of each step start from 1 again.
PdfAnalysisPerStep(answers) ==
  LET results == FlattenSeq([i \in DOMAIN answers |-> answers[i].answer.message.result])
      lists   == [i \in DOMAIN answers |-> answers[i].answer.message.elements]
      longest == CHOOSE i \in DOMAIN lists : \A j \in DOMAIN lists : Len(lists[i]) >= Len(lists[j])
  IN  [elements |-> lists[longest],
       result |-> IF results = <<>> THEN "" ELSE results[Len(results)]]

\* convert_analysis_to_pdf_data: the elements numbered through all steps;
\* of any other key the last answer wins.
PdfAnalysis(answers) ==
  LET results == FlattenSeq([i \in DOMAIN answers |-> answers[i].answer.message.result])
  IN  [elements |-> FlattenSeq([i \in DOMAIN answers |-> answers[i].answer.message.elements]),
       result |-> IF results = <<>> THEN "" ELSE results[Len(results)]]

NoCost ==
  LET part == [tokens |-> 0, USD |-> 0, RUB |-> 0]
  IN  [prompt |-> part, completion |-> part, total |-> part]

AddCost(c, d) ==
  [p \in DOMAIN c |-> [f \in DOMAIN c[p] |-> c[p][f] + d[p][f]]]

\* Mutant of PriceOf: the last step is left out.
PriceOfElements(answers) ==
  FoldLeft(LAMBDA sum, a : IF a.answer.message.result = <<>> THEN AddCost(sum, a.answer.cost) ELSE sum,
           NoCost, answers)

\* calculate_price_full_request
PriceOf(answers) == FoldLeft(LAMBDA sum, a : AddCost(sum, a.answer.cost), NoCost, answers)

-----------------------------------------------------------------------------
(* The price of a standard quantity                                        *)

\* conversion_factors; another unit is a ValueError.
ConversionFactor(unit) ==
  CASE unit \in {"l", "kg"} -> 1000
    [] unit \in {"ml", "gr", "g"} -> 1
    [] OTHER -> 0

StandardQuantity(base) == IF base <= 50 THEN 10 ELSE IF base < 100 THEN 50 ELSE 100

\* calculate_price_per_standard_unit raises for an unknown unit and, dividing
\* by it, for a quantity below one: measure_value is cut to an integer.
HasUnitPrice(product) ==
  /\ ConversionFactor(product.unit) # 0
  /\ product.quantity >= 1

\* The price of the standard quantity, by what it is made of: the code
\* divides price by base, multiplies and cuts the float to an integer.
UnitPrice(product) ==
  LET base == product.quantity * ConversionFactor(product.unit)
  IN  <<StandardQuantity(base), product.price, base>>

-----------------------------------------------------------------------------
(* The template: fields, and the structure that prints them                *)

\* get_base_info_by_product and the fields of get_base_template.
CoverFields(product, analysis) ==
  [name |-> <<product.article>>, article |-> <<product.article>>, type |-> <<product.type>>,
   price |-> <<product.quantity, product.unit, product.price>>,
   price_ratio |-> UnitPrice(product),
   conclusion |-> <<IF analysis.result = "" THEN "done" ELSE analysis.result>>]

\* get_one_element_data: the number and the title, the use with the ban when
\* there is one, the danger with its sign.
ElementFields(number, element) ==
  [title  |-> <<number, element.title>>,
   use    |-> IF element.stop \in {"", "not banned"}
              THEN <<element.title>> ELSE <<element.title, element.stop>>,
   danger |-> <<IF element.danger THEN "warning" ELSE "check mark">>]

\* get_composition_elements_data with the cover: the data of the template.
TemplateData(product, analysis) ==
  LET cover    == CoverFields(product, analysis)
      elements == [i \in DOMAIN analysis.elements |-> ElementFields(i, analysis.elements[i])]
      fields   == {<<name, 0>> : name \in DOMAIN cover}
                    \cup {<<name, i>> : name \in {"title", "use", "danger"}, i \in DOMAIN elements}
  IN  [field \in fields |-> IF field[2] = 0 THEN cover[field[1]]
                            ELSE elements[field[2]][field[1]]]

Shows(field) == <<"Paragraph", field>>
Fixed(kind) == <<kind, <<"", 0>>>>

\* PDF_STRUCTURE, without its spacers: the cover, then a page break.
CoverStructure ==
  <<Fixed("Image"), <<"FreeText", <<"article", 0>>>>, Fixed("FreeText"),
    Shows(<<"type", 0>>), Shows(<<"name", 0>>), Shows(<<"price", 0>>),
    Shows(<<"price_ratio", 0>>), Fixed("PageBreak")>>

\* get_data_template_for_one_element
ElementStructure(number) ==
  <<Shows(<<"title", number>>), Shows(<<"use", number>>), Shows(<<"danger", number>>)>>

ConclusionStructure == <<Shows(<<"conclusion", 0>>)>>

\* get_base_template: the elements and styles, cover first, conclusion last.
Structure(analysis) ==
  CoverStructure
    \o FlattenSeq([i \in DOMAIN analysis.elements |-> ElementStructure(i)])
    \o ConclusionStructure

-----------------------------------------------------------------------------
(* The document                                                            *)

\* create_flowables: a field the data has not is a KeyError.
Printable(structure, data) ==
  \A i \in DOMAIN structure :
    structure[i][2] = <<"", 0>> \/ structure[i][2] \in DOMAIN data

Flowables(structure, data) ==
  [i \in DOMAIN structure |->
     IF structure[i][2] = <<"", 0>> THEN <<structure[i][1]>>
     ELSE <<structure[i][1], structure[i][2][1], data[structure[i][2]]>>]

\* PDFDataProcessor and PDFCreator: the document of a product.
Document(product, answers) ==
  LET analysis == PdfAnalysis(answers)
  IN  Flowables(Structure(analysis), TemplateData(product, analysis))

\* What a reader finds under a field, from the first page to the last.
Printed(document, field) ==
  FlattenSeq([i \in DOMAIN document |->
    IF Len(document[i]) = 3 /\ document[i][2] = field THEN <<document[i][3]>> ELSE <<>>])
=============================================================================
