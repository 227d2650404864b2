--------------------------- MODULE DoclingRoutes ---------------------------
(***************************************************************************)
(* From a file name and a pipeline to a Docling converter: the format of   *)
(* an extension, the formats the settings allow, the pipeline a request    *)
(* resolves to, the route of each format (its format option, pipeline and  *)
(* backend classes and the builder of its options), whether a converter    *)
(* can be built from the settings at all, and what the output's metadata   *)
(* later says was used.                                                    *)
(*                                                                         *)
(* Abstractions.  A class is its name.  Of the options objects only        *)
(* whether they can be built is kept: the settings accept any non-empty    *)
(* OCR engine, layout model and classifier preset, the builders do not.    *)
(***************************************************************************)
EXTENDS RuntimeSettings

CONSTANTS
  BuiltinEngines,    \* OCR engines Docling has without plugins
  PluginEngines,     \* OCR engines of the plugins installed, compatible with Transformers
  ClassifierPresets  \* picture classifier presets Docling knows

ASSUME PipelineAssumption == None # "IngestProgressVlmPipeline"

NoFormat == "no format"

ExtensionToFormat ==
  LET spelled ==
        [ asciidoc |-> {".adoc", ".asciidoc"}, csv |-> {".csv"}, docx |-> {".docx"},
          image |-> {".bmp", ".jpeg", ".jpg", ".png", ".tif", ".tiff", ".webp"},
          audio |-> {".flac", ".m4a", ".mp3", ".wav"}, html |-> {".htm", ".html"},
          xml_jats |-> {".jats", ".nxml"}, json_docling |-> {".json"},
          latex |-> {".latex", ".tex"}, md |-> {".markdown", ".md", ".txt"},
          mets_gbs |-> {".mets"}, pdf |-> {".pdf"}, pptx |-> {".pptx"},
          xml_uspto |-> {".uspto"}, vtt |-> {".vtt"}, xml_xbrl |-> {".xbrl"}, xlsx |-> {".xlsx"} ]
  IN  [x \in UNION {spelled[f] : f \in DOMAIN spelled} |->
         CHOOSE f \in DOMAIN spelled : x \in spelled[f]]

(* Extensions no format is known for are allowed as uploads and skipped here. *)
AllowedFormats(s) ==
  {ExtensionToFormat[x] : x \in s.allowed_upload_extensions \intersect DOMAIN ExtensionToFormat}

DetectInputFormat(x) == IF x \in DOMAIN ExtensionToFormat THEN ExtensionToFormat[x] ELSE NoFormat

FormatAllowed(s, format) == format \in AllowedFormats(s)

VlmFormats == {"pdf", "image"}

(* resolve_pipeline_mode: None where it raises UnsupportedPipelineError. *)
ResolvePipeline(pipeline, format) ==
  IF pipeline \notin {"standard", "vlm", "auto"} THEN None
  ELSE IF pipeline = "auto" THEN "standard"
  ELSE IF pipeline = "vlm" /\ format \notin VlmFormats THEN None
  ELSE pipeline

----------------------------------------------------------------------------
(* Routes *)

Route(option, pipeline, backend, kind, builder, reported) ==
  [option |-> option, pipeline |-> pipeline, backend |-> backend, kind |-> kind,
   builder |-> builder, reported |-> reported]

Converts(option, backend) ==
  Route(option, "SimplePipeline", backend, "simple", "convert_pipeline", TRUE)

StandardPdf(option, backend, reported) ==
  Route(option, "IngestProgressStandardPdfPipeline", backend, "standard", "pdf_pipeline", reported)

StandardRoutes ==
  [ pdf |-> StandardPdf("PdfFormatOption", "ThreadedDoclingParseDocumentBackend", TRUE),
    image |-> StandardPdf("ImageFormatOption", "ImageDocumentBackend", TRUE),
    mets_gbs |-> StandardPdf("MetsGbsFormatOption", "MetsGbsDocumentBackend", FALSE),
    docx |-> Converts("WordFormatOption", "MsWordDocumentBackend"),
    pptx |-> Converts("PowerpointFormatOption", "MsPowerpointDocumentBackend"),
    html |-> Converts("HTMLFormatOption", "HTMLDocumentBackend"),
    md |-> Converts("MarkdownFormatOption", "MarkdownDocumentBackend"),
    asciidoc |-> Converts("AsciiDocFormatOption", "AsciiDocBackend"),
    csv |-> Converts("CsvFormatOption", "CsvDocumentBackend"),
    xlsx |-> Converts("ExcelFormatOption", "MsExcelDocumentBackend"),
    latex |-> Converts("LatexFormatOption", "LatexDocumentBackend"),
    xml_jats |-> Converts("XMLJatsFormatOption", "JatsDocumentBackend"),
    xml_uspto |-> Converts("PatentUsptoFormatOption", "PatentUsptoDocumentBackend"),
    json_docling |-> [Converts("FormatOption", "DoclingJSONBackend")
                        EXCEPT !.builder = "backend_pipeline"],
    vtt |-> [Converts("FormatOption", "WebVTTDocumentBackend")
               EXCEPT !.builder = "backend_pipeline"],
    xml_xbrl |-> [Converts("XBRLFormatOption", "XBRLDocumentBackend")
                    EXCEPT !.builder = "xbrl_pipeline"],
    audio |-> Route("AudioFormatOption", "AsrPipeline", "NoOpBackend", "asr",
                    "audio_pipeline", FALSE) ]

Vlm(option, backend) ==
  Route(option, "IngestProgressVlmPipeline", backend, "vlm", "vlm_pipeline", TRUE)

VlmRoutes ==
  [ pdf |-> Vlm("PdfFormatOption", "DoclingParseDocumentBackend"),
    image |-> Vlm("ImageFormatOption", "ImageDocumentBackend") ]

DefaultRoute ==
  Route("DoclingDefaultFormatOption", "SimplePipeline", "DoclingDefaultBackend", "simple",
        "default", TRUE)

RouteSpecFor(format, pipeline) ==
  IF pipeline = "vlm" /\ format \in VlmFormats THEN VlmRoutes[format]
  ELSE IF format \in DOMAIN StandardRoutes THEN StandardRoutes[format]
  ELSE DefaultRoute

MetadataRouteSpecFor(format, pipeline) ==
  LET spec == RouteSpecFor(format, pipeline) IN IF spec.reported THEN spec ELSE DefaultRoute

----------------------------------------------------------------------------
(* Options *)

LayoutModels ==
  { "docling-layout-heron", "docling_layout_heron", "docling-layout-heron-101",
    "docling_layout_heron_101", "docling-layout-egret-medium", "docling_layout_egret_medium",
    "docling-layout-egret-large", "docling_layout_egret_large", "docling-layout-egret-xlarge",
    "docling_layout_egret_xlarge", "docling-layout-v2", "docling_layout_v2" }

OcrEngines(s) ==
  BuiltinEngines \union (IF s.docling_allow_external_plugins THEN PluginEngines ELSE {})

(* build_pdf_pipeline_options does not raise. *)
PdfOptionsBuild(s) ==
  /\ s.docling_pdf_ocr_engine \in OcrEngines(s)
  /\ s.docling_pdf_layout_model \in LayoutModels
  /\ s.docling_pdf_picture_classifier_preset \in ClassifierPresets

(* Faulty variants of the definition below *)
PipelineForgotten(s, pipeline, format) ==
  [f \in AllowedFormats(s) |-> RouteSpecFor(f, "standard")]

(* build_format_options: one route for every format that is allowed, the   *)
(* pipeline of the request for its own format only.                        *)
FormatRoutes(s, pipeline, format) ==
  [f \in AllowedFormats(s) |-> RouteSpecFor(f, IF f = format THEN pipeline ELSE "standard")]

(* The options of every allowed format are built, whatever the document    *)
(* is: the PDF options as soon as a format that uses them is allowed.      *)
ConverterBuilds(s, pipeline, format) ==
  (\E f \in AllowedFormats(s) :
     FormatRoutes(s, pipeline, format)[f].builder = "pdf_pipeline") => PdfOptionsBuild(s)

(* docling_options_metadata's active_options: the format option it names. *)
ActiveFormatOption(format, pipeline) ==
  CASE format = "pdf" -> "PdfFormatOption"
    [] format = "image" -> "ImageFormatOption"
    [] format = "xml_xbrl" -> "XBRLFormatOption"
    [] OTHER -> None

ActivePipeline(format, pipeline) ==
  IF pipeline = "vlm" /\ format \in VlmFormats THEN "vlm" ELSE "standard"

(* What the metadata of the output says was used. *)
Reported(format, pipeline) ==
  LET route == MetadataRouteSpecFor(format, pipeline)
  IN  [option |-> route.option, pipeline |-> route.pipeline, backend |-> route.backend,
       active |-> ActiveFormatOption(format, pipeline),
       kind |-> route.kind, mode |-> ActivePipeline(format, pipeline)]

(* _build_format_option: the format option and the classes it is given;    *)
(* what it is not given is the default of the format option's own class.   *)
BuildFormatOption(route) ==
  LET given(pipeline, backend) ==
        [option |-> route.option, pipeline |-> pipeline, backend |-> backend]
  IN  CASE route.builder \in {"pdf_pipeline", "vlm_pipeline"} ->
             given(route.pipeline, IF route.option = "PdfFormatOption" THEN route.backend ELSE None)
        [] route.builder = "backend_pipeline" -> given(route.pipeline, route.backend)
        [] OTHER -> given(None, None)

(* What the converter was built with. *)
BuiltFor(s, format, pipeline) == BuildFormatOption(FormatRoutes(s, pipeline, format)[format])
=============================================================================
