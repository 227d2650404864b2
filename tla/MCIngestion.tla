---------------------------- MODULE MCIngestion ----------------------------
(***************************************************************************)
(* Ingestion for TLC: families of small scenarios, each rich in one thing. *)
(***************************************************************************)
EXTENDS Ingestion

CONSTANTS j1, j2, j3, c1, c2, e1, e2

Upload ==
  [ kind |-> "upload", content |-> c1, batch |-> FALSE,
    name |-> [stem |-> "safe", extension |-> ".pdf"], size |-> 1, parser |-> "docling",
    pipeline |-> None, enabled |-> None, strategy |-> None, sink |-> None, languages |-> {},
    html |-> FALSE, score |-> 90 ]
Rerun == [Upload EXCEPT !.kind = "rerun"]
Named(stem, extension) == [Upload EXCEPT !.name = [stem |-> stem, extension |-> extension]]

Edit(resets, values) == [resets |-> resets, values |-> values]
Set(key, value) == Edit(<<>>, <<<<key, value>>>>)

(* Edits a request and its parse can tell apart. *)
SettingsEdits ==
  { Set("docling_pipeline", "vlm"),
    Set("allowed_upload_extensions", {".docx", ".mets", ".flac"}),
    Edit(<<>>, << <<"chunking_enabled", TRUE>>, <<"chunking_strategy", "hybrid">>,
                  <<"chunk_tokenizer_path", "/tokenizer">> >>),
    Set("chunking_strategy", "line_based"),
    Set("docling_pdf_ocr_engine", "tesserocr"),
    Set("docling_allow_external_plugins", FALSE),
    Set("docling_pdf_picture_classifier_preset", "unheard_of"),
    Edit(<<>>, << <<"confidence_min_document_score", 95>>, <<"confidence_warn_only", FALSE>> >>),
    Set("dispatch_sink_mode", "elastic") }

(* Edits that collide, are spelled in another way, or must be refused. *)
OddEdits ==
  { Set("chunking_strategy", "hybrid"),
    Set("chunk_tokenizer_path", Blank),
    Edit(<<"chunking_strategy">>, << <<"docling_pipeline", "auto">> >>),
    Edit(<<"docling_pipeline", "retention_days">>, << <<"confidence_min_document_score", Blank>> >>),
    Edit(<<"docling_pipeline">>, << <<"docling_pipeline", "vlm">> >>),
    Edit(<<>>, << <<"retention_days", 30>>, <<"chunk_max_tokens", 31>> >>),
    Edit(<<>>, << <<"dispatch_max_bulk_size", 5>>, <<"embedding_elastic_mapping_version", "semantic_text">> >>),
    Set("docling_remote_llm_provider", "openai"),
    Set("docling_remote_llm_url", "ftp://"),
    Set("dispatch_max_bulk_size", 6),
    Set("docling_pdf_ocr_engine", Blank),
    Set("docling_pdf_queue_max_size", Garbage),
    Set("storage_dir", "/elsewhere"),
    Set("no_such_setting", 1) }

Alone(r) == [j \in Jobs |-> IF j = j1 THEN r ELSE None]
Two(r, q) == [j \in Jobs |-> CASE j = j1 -> r [] j = j2 -> q [] OTHER -> None]
Three(r, q, p) == [j \in Jobs |-> CASE j = j1 -> r [] j = j2 -> q [] OTHER -> p]
NoEdits == [e \in Editors |-> None]
OneEdit(edited) == [e \in Editors |-> IF e = e1 THEN edited ELSE None]
(* So many recoveries, write errors and other disturbances. *)
Trouble(recoveries, writes, others) ==
  [d \in Disturbances |->
     CASE d = "recovery" -> recoveries [] d = "write" -> writes [] OTHER -> others]
NoTrouble == Trouble(0, 0, 0)
Scenario(requests, edits, disturbances) ==
  [requests |-> requests, edits |-> edits, disturbances |-> disturbances]

Extensions == UploadExtensions \union {".mets", ".flac", ".exe", ""}
Pipelines == {None, "standard", "vlm", "auto", "fast"}

(* Every format and pipeline, and every chunking option, before and after  *)
(* an edit of the settings.                                                *)
Formats ==
  {Scenario(Alone([Named("safe", x) EXCEPT !.pipeline = p]), edits, NoTrouble) :
     x \in Extensions, p \in Pipelines,
     edits \in {NoEdits} \union {OneEdit(s) : s \in SettingsEdits}}

Chunking ==
  {Scenario(Alone([Upload EXCEPT !.enabled = en, !.strategy = st, !.sink = sink]), edits, NoTrouble) :
     en \in {None, TRUE, FALSE}, st \in {None, "token", "page", "hybrid", "line", "sentence"},
     sink \in {None, "elastic", "local"},
     edits \in {NoEdits} \union {OneEdit(s) : s \in SettingsEdits}}

Refused ==
  {Scenario(Alone(r), NoEdits, Trouble(0, 0, 1)) :
     r \in { [Upload EXCEPT !.size = 101], [Upload EXCEPT !.size = 100],
             [Upload EXCEPT !.sink = "tape"], [Upload EXCEPT !.languages = {"x!"}],
             [Upload EXCEPT !.languages = {"en", "de"}], [Upload EXCEPT !.parser = "tika"],
             [Upload EXCEPT !.batch = TRUE, !.pipeline = "fast"],
             [Upload EXCEPT !.batch = TRUE, !.size = 101],
             Named("unsafe", ".pdf"), [Named("unsafe", ".pdf") EXCEPT !.batch = TRUE] }}

Editing ==
  {Scenario([j \in Jobs |-> None], [e \in Editors |-> IF e = e1 THEN s ELSE t], NoTrouble) :
     s \in SettingsEdits \union OddEdits, t \in SettingsEdits \union OddEdits}

(* Two runs of one content, with everything that may come between. *)
SharingTroubles == {Trouble(0, 1, 1), Trouble(1, 0, 0)}

SharedBy(q, troubles) ==
  {Scenario(Two([Upload EXCEPT !.html = TRUE], q), NoEdits, d) : d \in troubles}

Sharing ==
  SharedBy([Rerun EXCEPT !.enabled = TRUE], SharingTroubles \union {Trouble(0, 0, 2)})
    \union SharedBy(Named("safe", ".docx"), SharingTroubles)

(* One upload, submitted again by recoveries wherever its call is. *)
Recovering == {Scenario(Alone(Upload), NoEdits, d) : d \in {Trouble(2, 1, 0), Trouble(1, 0, 2)}}

(* Three runs, two of them counted at the same time; the second run of one *)
(* content leaves the writing of files to the others.                      *)
Crowd ==
  {Scenario(Three([Upload EXCEPT !.html = TRUE], q, Rerun), NoEdits, NoTrouble) :
     q \in {[Rerun EXCEPT !.sink = "elastic"], [Upload EXCEPT !.sink = "elastic"],
            [Upload EXCEPT !.content = c2]}}

(* Runs made and removed, one after the other, without files. *)
Removing ==
  {Scenario(Three([Upload EXCEPT !.sink = "elastic"], [Rerun EXCEPT !.sink = "elastic"],
                  [Rerun EXCEPT !.sink = "elastic"]), NoEdits, Trouble(0, 0, 1))}

MCScenarios == Formats \union Chunking \union Refused \union Editing \union Sharing
                 \union Recovering \union Crowd \union Removing
=============================================================================
