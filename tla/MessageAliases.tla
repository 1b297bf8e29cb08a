--------------------------- MODULE MessageAliases ---------------------------
(***************************************************************************)
(* The English names of a request's keys and values                        *)
(* (internal/outbound/input_aliases.go): rewritten to the Portuguese ones  *)
(* before the body is decoded, position by position.                       *)
(*                                                                         *)
(* A JSON object is a function on its keys.  The value of a key is a text, *)
(* a string of an enumeration, or a sequence of objects: one, for a nested *)
(* object, or the items of an array.                                       *)
(***************************************************************************)
EXTENDS Sequences

requestAliasAtTopLevel ==
  [instance |-> "instancia", to |-> "para", kind |-> "tipo",
   reply_to |-> "responder_a", text |-> "texto", language |-> "idioma",
   variables |-> "variaveis", header |-> "cabecalho",
   header_text |-> "cabecalho_texto", header_media |-> "cabecalho_midia",
   template_buttons |-> "botoes_template", buttons |-> "botoes",
   button_title |-> "botao_titulo", button_url |-> "botao_url",
   footer |-> "rodape", category |-> "categoria", caption |-> "legenda",
   file_name |-> "nome_arquivo", reaction |-> "reacao",
   location |-> "localizacao", url_buttons |-> "botoes_url",
   contacts |-> "contatos", flow |-> "fluxo", sections |-> "secoes",
   cards |-> "cartoes"]

cardAlias ==
  [header |-> "cabecalho", variables |-> "variaveis",
   template_buttons |-> "botoes_template", text |-> "texto",
   buttons |-> "botoes", button_title |-> "botao_titulo",
   button_url |-> "botao_url"]

templateHeaderAlias ==
  [kind |-> "tipo", text |-> "texto", file_name |-> "nome_arquivo"]

templateButtonAlias == [kind |-> "tipo", text |-> "texto", index |-> "indice"]
reactionAlias == [target |-> "alvo"]
locationAlias == [address |-> "endereco", name |-> "nome"]
flowAlias == [name |-> "nome"]
buttonAlias == [title |-> "titulo"]

requestTypeValueAlias ==
  [text |-> "texto", buttons |-> "botoes", list |-> "lista",
   request_location |-> "pedir_localizacao", reaction |-> "reacao",
   location |-> "localizacao", contacts |-> "contatos", media |-> "midia",
   carousel |-> "carrossel"]

requestCategoryValueAlias == [image |-> "imagem", document |-> "documento"]

templateButtonTypeValueAlias == [quick_reply |-> "resposta_rapida"]

-----------------------------------------------------------------------------
LOCAL Image(f) == {f[x] : x \in DOMAIN f}

(* One object under one dictionary. *)
Renamed(m, dict) ==
  LET canonical(k) == IF k \in DOMAIN dict THEN dict[k] ELSE k
  IN [c \in {canonical(k) : k \in DOMAIN m} |->
        m[CHOOSE k \in DOMAIN m : canonical(k) = c]]

(* A key in both languages, and the keys that came by their old name. *)
Clashes(m, dict) == \E en \in DOMAIN dict : {en, dict[en]} \subseteq DOMAIN m
OldKeys(m, dict) == Image(dict) \cap DOMAIN m

(* One value of an enumeration. *)
translateValueAliasInPlace(m, field, dict) ==
  IF field \in DOMAIN m /\ m[field] \in DOMAIN dict
  THEN [m EXCEPT ![field] = dict[@]] ELSE m

(* Mutant: a value of an enumeration is not counted. *)
OldValues_Never(m, field, dict) == {}

OldValues(m, field, dict) ==
  IF field \in DOMAIN m /\ m[field] \in Image(dict)
  THEN {"valor:" \o field} ELSE {}

(* The objects under a key, if the key is there. *)
Under(m, key) == IF key \in DOMAIN m THEN Image(m[key]) ELSE {}

-----------------------------------------------------------------------------
(* The dictionary of the object or of the items under each key; a card has *)
(* some of these keys, and cards have their own dictionary.                *)
nested ==
  [cabecalho |-> templateHeaderAlias, cabecalho_midia |-> templateHeaderAlias,
   reacao |-> reactionAlias, localizacao |-> locationAlias, fluxo |-> flowAlias,
   botoes |-> buttonAlias, botoes_template |-> templateButtonAlias]

nestedInCard == {"cabecalho", "botoes_template", "botoes"}

translateTemplateButtonItem(m) ==
  translateValueAliasInPlace(Renamed(m, templateButtonAlias), "tipo",
                             templateButtonTypeValueAlias)

translateItem(m, key) ==
  IF key = "botoes_template" THEN translateTemplateButtonItem(m)
  ELSE Renamed(m, nested[key])

translateNested(m, keys) ==
  [k \in DOMAIN m |->
     IF k \in keys THEN [i \in DOMAIN m[k] |-> translateItem(m[k][i], k)] ELSE m[k]]

(* Mutant: the buttons of a card keep their English names. *)
translateCardItem_NoButtons(m) ==
  translateNested(Renamed(m, cardAlias), {"cabecalho", "botoes_template"})

translateCardItem(m) == translateNested(Renamed(m, cardAlias), nestedInCard)

(* The top level: keys first, then the values under the canonical keys. *)
translateTop(m) ==
  translateValueAliasInPlace(
    translateValueAliasInPlace(Renamed(m, requestAliasAtTopLevel),
                               "tipo", requestTypeValueAlias),
    "categoria", requestCategoryValueAlias)

translateRequestBody(m) ==
  LET top == translateNested(translateTop(m), DOMAIN nested)
  IN IF "cartoes" \notin DOMAIN top THEN top
     ELSE [top EXCEPT !.cartoes = [i \in DOMAIN @ |-> translateCardItem(@[i])]]

-----------------------------------------------------------------------------
(* What the translation meets below an object whose own keys are canonical. *)

ClashesBelow(m, keys) == \E k \in keys : \E x \in Under(m, k) : Clashes(x, nested[k])

OldInItem(x, k) ==
  OldKeys(x, nested[k]) \cup
    (IF k = "botoes_template"
     THEN OldValues(Renamed(x, templateButtonAlias), "tipo", templateButtonTypeValueAlias)
     ELSE {})

OldBelow(m, keys) == UNION {UNION {OldInItem(x, k) : x \in Under(m, k)} : k \in keys}

ErrConflictingAlias(m) ==
  LET top == Renamed(m, requestAliasAtTopLevel)
  IN \/ Clashes(m, requestAliasAtTopLevel)
     \/ ClashesBelow(top, DOMAIN nested)
     \/ \E c \in Under(top, "cartoes") :
          Clashes(c, cardAlias) \/ ClashesBelow(Renamed(c, cardAlias), nestedInCard)

(* What came in Portuguese although it has an English name. *)
OldNames(m) ==
  LET top == Renamed(m, requestAliasAtTopLevel)
  IN OldKeys(m, requestAliasAtTopLevel)
     \cup OldValues(top, "tipo", requestTypeValueAlias)
     \cup OldValues(top, "categoria", requestCategoryValueAlias)
     \cup OldBelow(top, DOMAIN nested)
     \cup UNION {OldKeys(c, cardAlias) \cup OldBelow(Renamed(c, cardAlias), nestedInCard) :
                   c \in Under(top, "cartoes")}
=============================================================================
