--------------------------- MODULE ParseRequests ---------------------------
(***************************************************************************)
(* What the API checks of a request before it accepts the upload, and what *)
(* the worker checks again when it parses the stored file: two paths       *)
(* through the code, run at different times and under settings that may    *)
(* have changed, which have to agree.                                      *)
(*                                                                         *)
(* A request is a record: name (the stem, safe or unsafe for the           *)
(* sanitizer, and the extension), size in MB, parser, pipeline, enabled    *)
(* and strategy (of chunking), sink, languages (a set of codes), html,     *)
(* score (the confidence the conversion will have, in hundredths).  None   *)
(* is an option left out.                                                  *)
(***************************************************************************)
EXTENDS DoclingRoutes

CONSTANTS
  TokenizerDirs,   \* values of chunk_tokenizer_path that are local directories
  LanguageCodes    \* language codes that are well formed

Parsers == {"docling"}
SinkModes == {"local", "elastic", "local_and_elastic"}
Strategies == {"token", "page", "line"}

ASSUME NoneAssumption == None \notin Strategies

MaxOcrLanguages == 8

(* _strategy_: None where normalize_chunking_strategy raises. *)
NormalStrategy(v) ==
  IF v = "hybrid" THEN "token" ELSE IF v = "line_based" THEN "line"
  ELSE IF v \in Strategies THEN v ELSE None

(* resolve_selection *)
Selection(s, r) ==
  [enabled |-> IF r.enabled = None THEN s.chunking_enabled ELSE r.enabled,
   strategy |-> IF r.strategy = None THEN s.chunking_strategy ELSE NormalStrategy(r.strategy)]

SupportsStrategy(parser, strategy) == parser = "docling" /\ strategy \in {"token", "page"}

(* validate_strategy: the token strategy needs a tokenizer on disk. *)
ValidStrategy(s, parser, strategy) ==
  /\ SupportsStrategy(parser, strategy)
  /\ strategy = "token" => s.chunk_tokenizer_path \in TokenizerDirs

(* Faulty variant of the definition below: checks only what is asked for. *)
ChecksExplicitStrategyOnly(s, r) ==
  r.strategy # None => SupportsStrategy(r.parser, NormalStrategy(r.strategy))

(* ParserChunkingService.validate_request: of a request that does not      *)
(* chunk, only a strategy it names is checked.                             *)
ChunkingAccepted(s, r) ==
  LET selection == Selection(s, r)
  IN  IF selection.enabled THEN ValidStrategy(s, r.parser, selection.strategy)
      ELSE r.strategy # None => SupportsStrategy(r.parser, selection.strategy)

(* ParserChunkingService.chunk *)
ChunkingRuns(s, r) ==
  LET selection == Selection(s, r)
  IN  /\ selection.strategy # None
      /\ selection.enabled => ValidStrategy(s, r.parser, selection.strategy)

PipelineOf(s, r) == IF r.pipeline = None THEN s.docling_pipeline ELSE r.pipeline

(* detect_input_format, validate_allowed_format and resolve_pipeline_mode, *)
(* of a name when the request comes and of the stored file at the parse.   *)
FormatAndPipelineFit(s, extension, pipeline) ==
  LET format == DetectInputFormat(extension)
  IN  /\ FormatAllowed(s, format)
      /\ ResolvePipeline(pipeline, format) # None

DoclingAccepts(s, r) == FormatAndPipelineFit(s, r.name.extension, PipelineOf(s, r))

(* ParserRequestValidationService.validate: the validator of the parser,   *)
(* and of a parser nobody knows nothing.                                   *)
RequestValid(s, r) ==
  r.parser \in Parsers => DoclingAccepts(s, r) /\ ChunkingAccepted(s, r)

(* normalize_dispatch_sink_mode and normalize_ocr_languages *)
OptionsNormal(r) ==
  /\ r.sink = None \/ r.sink \in SinkModes
  /\ r.languages \subseteq LanguageCodes /\ Cardinality(r.languages) <= MaxOcrLanguages

(* UploadValidator.validate_metadata *)
MetadataValid(s, r) == r.name.extension \in s.allowed_upload_extensions

SizeValid(s, r) == r.size <= s.max_upload_size_mb

UploadAccepted(s, r) == MetadataValid(s, r) /\ OptionsNormal(r) /\ RequestValid(s, r)
RerunAccepted(s, r) == RequestValid(s, r) /\ OptionsNormal(r)

(* FilenameSanitizer: a stem of which no character is kept takes the dot   *)
(* of the extension with it, so the stored name has no extension left.     *)
StoredExtension(name) == IF name.stem = "unsafe" THEN "" ELSE name.extension

----------------------------------------------------------------------------
(* The parse *)

(* A mean score below the threshold is a warning, and an error unless      *)
(* confidence_warn_only is set.                                            *)
LowConfidence(s, r) ==
  /\ s.confidence_output_enabled
  /\ s.confidence_min_document_score # None
  /\ r.score < s.confidence_min_document_score

(* Why the worker refuses to parse, in the order of DocumentParseService   *)
(* and DoclingDocumentParser; "no" if the conversion can be tried.  A      *)
(* request of an unknown parser fails in ParserRegistry.get.               *)
ParseRefusal(s, r, inputExists, extension) ==
  LET format == DetectInputFormat(extension)
      pipeline == ResolvePipeline(PipelineOf(s, r), format)
  IN  CASE r.parser \notin Parsers -> "parser"
        [] OTHER ->
             CASE ~inputExists -> "input"
               [] ~FormatAndPipelineFit(s, extension, PipelineOf(s, r)) -> "format"
               [] OTHER -> IF ConverterBuilds(s, pipeline, format) THEN "no" ELSE "converter"

(* Why a conversion that went well is an error after all. *)
ResultRefusal(s, r) ==
  CASE LowConfidence(s, r) /\ ~s.confidence_warn_only -> "confidence"
    [] OTHER -> IF ChunkingRuns(s, r) THEN "no" ELSE "chunking"

(* The sink the dispatch of a job uses: the one it asked for, or the       *)
(* setting's.                                                              *)
SinkOf(s, r) == IF r.sink = None THEN s.dispatch_sink_mode ELSE r.sink
StoresLocal(s, r) == SinkOf(s, r) \in {"local", "local_and_elastic"}

(* What the job's metadata reports and what the converter had for it. *)
ReportOf(s, r, extension) ==
  LET format == DetectInputFormat(extension)
  IN  Reported(format, ResolvePipeline(PipelineOf(s, r), format))

BuildOf(s, r, extension) ==
  LET format == DetectInputFormat(extension)
  IN  BuiltFor(s, format, ResolvePipeline(PipelineOf(s, r), format))
=============================================================================
