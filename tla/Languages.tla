----------------------------- MODULE Languages -----------------------------
(***************************************************************************)
(* How the words of a site's languages get into the search index and are   *)
(* looked up there: lunr's tokenizer and pipelines (lunr.js), and what the *)
(* language scripts and lunr.multi.js make of them.  A pipeline is a       *)
(* sequence of functions, which are known by their names and languages.    *)
(* The Russian, Turkish and Arabic scripts are not modelled.               *)
(***************************************************************************)
EXTENDS Snowball, SequencesExt

CONSTANT StopWords \* the stop words of each language but English, if the site has them

LOCAL Da == INSTANCE StemDa
LOCAL De == INSTANCE StemDe
LOCAL En == INSTANCE StemEn
LOCAL Es == INSTANCE StemEs
LOCAL Fi == INSTANCE StemFi
LOCAL Fr == INSTANCE StemFr
LOCAL Hu == INSTANCE StemHu
LOCAL It == INSTANCE StemIt
LOCAL Nl == INSTANCE StemNl
LOCAL Norsk == INSTANCE StemNo \* Snowball has an operator No
LOCAL Pt == INSTANCE StemPt
LOCAL Ro == INSTANCE StemRo
LOCAL Sv == INSTANCE StemSv

\* The word a stemmer makes of a word; the Japanese one leaves it as it is.  The
\* Dutch script is there twice: lunr.du.js is a copy that asks for "nl" instead.
Stem(lang, w) ==
  CASE lang = "en" -> En!stem(w) [] lang = "da" -> Da!stem(w) [] lang = "de" -> De!stem(w)
    [] lang = "es" -> Es!stem(w) [] lang = "fi" -> Fi!stem(w) [] lang = "fr" -> Fr!stem(w)
    [] lang = "hu" -> Hu!stem(w) [] lang = "it" -> It!stem(w)
    [] lang \in {"nl", "du"} -> Nl!stem(w) [] lang = "no" -> Norsk!stem(w) [] lang = "pt" -> Pt!stem(w)
    [] lang = "ro" -> Ro!stem(w) [] lang = "sv" -> Sv!stem(w) [] lang = "ja" -> w

\* The tables in which a stemmer looks for endings.
Tables(lang) ==
  CASE lang = "da" -> Da!Tables [] lang = "de" -> De!Tables [] lang = "es" -> Es!Tables
    [] lang = "fi" -> Fi!Tables [] lang = "fr" -> Fr!Tables [] lang = "hu" -> Hu!Tables
    [] lang = "it" -> It!Tables [] lang \in {"nl", "du"} -> Nl!Tables [] lang = "no" -> Norsk!Tables
    [] lang = "pt" -> Pt!Tables [] lang = "ro" -> Ro!Tables [] lang = "sv" -> Sv!Tables
    [] OTHER -> {}

english == [pipeline |-> <<"trimmer", "stopWordFilter", "stemmer">>, searchPipeline |-> <<"stemmer">>]

\* What a language's plugin sets a builder's pipelines to.  The plugins of
\* Japanese and Vietnamese leave the search pipeline as it is for English.
plugin ==
  [da |-> [pipeline |-> Da!pipeline, searchPipeline |-> Da!searchPipeline],
   de |-> [pipeline |-> De!pipeline, searchPipeline |-> De!searchPipeline],
   du |-> [pipeline |-> Nl!pipeline, searchPipeline |-> Nl!searchPipeline],
   es |-> [pipeline |-> Es!pipeline, searchPipeline |-> Es!searchPipeline],
   fi |-> [pipeline |-> Fi!pipeline, searchPipeline |-> Fi!searchPipeline],
   fr |-> [pipeline |-> Fr!pipeline, searchPipeline |-> Fr!searchPipeline],
   hu |-> [pipeline |-> Hu!pipeline, searchPipeline |-> Hu!searchPipeline],
   it |-> [pipeline |-> It!pipeline, searchPipeline |-> It!searchPipeline],
   nl |-> [pipeline |-> Nl!pipeline, searchPipeline |-> Nl!searchPipeline],
   no |-> [pipeline |-> Norsk!pipeline, searchPipeline |-> Norsk!searchPipeline],
   pt |-> [pipeline |-> Pt!pipeline, searchPipeline |-> Pt!searchPipeline],
   ro |-> [pipeline |-> Ro!pipeline, searchPipeline |-> Ro!searchPipeline],
   sv |-> [pipeline |-> Sv!pipeline, searchPipeline |-> Sv!searchPipeline],
   ja |-> [pipeline |-> <<"trimmer", "stopWordFilter", "stemmer">>],
   vi |-> [pipeline |-> <<"stopWordFilter", "trimmer">>]]

-----------------------------------------------------------------------------
(* The functions of the pipelines.                                         *)

stopWordFilter ==
  {"a", "able", "about", "across", "after", "all", "almost", "also", "am", "among", "an",
   "and", "any", "are", "as", "at", "be", "because", "been", "but", "by", "can", "cannot",
   "could", "dear", "did", "do", "does", "either", "else", "ever", "every", "for", "from",
   "get", "got", "had", "has", "have", "he", "her", "hers", "him", "his", "how", "however",
   "i", "if", "in", "into", "is", "it", "its", "just", "least", "let", "like", "likely",
   "may", "me", "might", "most", "must", "my", "neither", "no", "nor", "not", "of", "off",
   "often", "on", "only", "or", "other", "our", "own", "rather", "said", "say", "says",
   "she", "should", "since", "so", "some", "than", "that", "the", "their", "them", "then",
   "there", "these", "they", "this", "tis", "to", "too", "twas", "us", "wants", "was", "we",
   "were", "what", "when", "where", "which", "while", "who", "whom", "why", "will", "with",
   "would", "yet", "you", "your"}

IsStopWord(lang, w) == w \in IF lang = "en" THEN stopWordFilter ELSE StopWords[lang]

Letters == Chars("ABCDEFGHIJKLMNOPQRSTUVWXYZabcdefghijklmnopqrstuvwxyz")
Accented == Chars("ßàáâãäåæçèéêëìíîïñòóôõöøùúûüýþ")

\* The digits are no characters of the words of the stemmed languages.
wordCharacters(lang) ==
  CASE lang = "en" -> Letters \cup Chars("0123456789_")
    [] lang = "ja" -> Letters \cup Chars("0123456789")
    [] OTHER -> Letters \cup Accented

\* The trimmers.  With brackets in the word characters, as in lunr.vi.js, the
\* expressions ask for a closing bracket, which no word of a site has.
Trimmed(w, chars) ==
  LET kept == {i \in 1..Len(w) : At(w, i) \in chars}
  IN IF kept = {} THEN "" ELSE SubSeq(w, Least(kept), Greatest(kept))
trimmer(w, langs) ==
  IF "vi" \in langs THEN w ELSE Trimmed(w, UNION {wordCharacters(lang) : lang \in langs})

Function(name, langs) == [name |-> name, langs |-> langs]
Functions(names, lang) == [i \in DOMAIN names |-> Function(names[i], {lang})]

\* What a function makes of a token: no token, or one, which may be empty.
Apply(f, w) ==
  LET lang == CHOOSE lang \in f.langs : TRUE
  IN CASE f.name = "trimmer" -> <<trimmer(w, f.langs)>>
       [] f.name = "stopWordFilter" -> IF IsStopWord(lang, w) THEN <<>> ELSE <<w>>
       [] f.name = "stemmer" -> <<Stem(lang, w)>>

\* lunr.Pipeline's run, of all tokens through one function after the other.
Run(pipeline, tokens) ==
  FoldLeft(LAMBDA memo, f : FlattenSeq([j \in DOMAIN memo |-> Apply(f, memo[j])]),
           tokens, pipeline)
runString(pipeline, str) == Run(pipeline, <<str>>)

-----------------------------------------------------------------------------
(* The pipelines of a site.                                                *)

\* Faulty variant: the stemmers of the index in the opposite order.
MultiLanguageReversed(langs) ==
  LET stops == SelectSeq(langs, LAMBDA lang : lang # "th")
      stemmed == SelectSeq(langs, LAMBDA lang : lang \notin {"vi", "th"})
      each(name, of) == [i \in DOMAIN of |-> Function(name, {of[i]})]
  IN [pipeline |-> <<Function("trimmer", ToSet(langs))>>
                   \o Reverse(each("stopWordFilter", stops)) \o Reverse(each("stemmer", stemmed)),
      searchPipeline |-> each("stemmer", stemmed)]

\* lunr.multiLanguage: one trimmer, the filters, the last language's first,
\* then the stemmers one after the other.
multiLanguage(langs) ==
  LET stops == SelectSeq(langs, LAMBDA lang : lang # "th")
      stemmed == SelectSeq(langs, LAMBDA lang : lang \notin {"vi", "th"})
      each(name, of) == [i \in DOMAIN of |-> Function(name, {of[i]})]
  IN [pipeline |-> <<Function("trimmer", ToSet(langs))>>
                   \o Reverse(each("stopWordFilter", stops)) \o each("stemmer", stemmed),
      searchPipeline |-> each("stemmer", stemmed)]

\* A new builder's pipelines, and those of the language the worker uses.
Pipelines(langs) ==
  LET own == plugin[langs[1]]
  IN IF langs = <<"en">>
     THEN [pipeline |-> Functions(english.pipeline, "en"),
           searchPipeline |-> Functions(english.searchPipeline, "en")]
     ELSE IF Len(langs) > 1 THEN multiLanguage(langs)
     ELSE [pipeline |-> Functions(own.pipeline, langs[1]),
           searchPipeline |-> IF "searchPipeline" \in DOMAIN own
                              THEN Functions(own.searchPipeline, langs[1])
                              ELSE Functions(english.searchPipeline, "en")]

\* lunr.th.js calls lunr.wordcut, which no script has defined, and lunr.jp.js
\* uses `module`, which a worker does not have.
ScriptThrows(langs) == ToSet(langs) \cap {"th", "jp"} # {}

-----------------------------------------------------------------------------
(* lunr.tokenizer: what is left between separators of the text in small    *)
(* letters.  The segments of a Japanese text are its words between spaces, *)
(* TinySegmenter (tinyseg.js) leaving words in Latin letters whole.        *)

Uppercase == Chars("ABCDEFGHIJKLMNOPQRSTUVWXYZ")
ToLowerCase(s) ==
  Pass(s, LAMBDA done, n : IF At(s, n) \in Uppercase
                           THEN At(Codes, Code[At(s, n)] + Code["a"] - Code["A"]) ELSE At(s, n))

Tokenize(text, separator) ==
  LET str == ToLowerCase(text)
      ends == SelectSeq([i \in 1..(Len(str) + 1) |-> i],
                        LAMBDA i : i > Len(str) \/ At(str, i) \in separator)
      slice(n) == SubSeq(str, IF n = 1 THEN 1 ELSE ends[n - 1] + 1, ends[n] - 1)
  IN SelectSeq([n \in DOMAIN ends |-> slice(n)], LAMBDA token : token # "")

Tokens(text, langs, separator) ==
  Tokenize(text, IF langs = <<"ja">> THEN {" "} ELSE separator)
=============================================================================
