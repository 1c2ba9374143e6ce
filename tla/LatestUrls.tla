---------------------------- MODULE LatestUrls -----------------------------
(***************************************************************************)
(* get_latest_file_urls.py: the newest spreadsheet and the newest archive  *)
(* below a folder of the drive, for the import in doc/conf.py.  The drive  *)
(* lists a folder page by page, in an order of its own.                    *)
(***************************************************************************)
EXTENDS Naturals, Sequences, FiniteSets, SequencesExt

CONSTANTS
  Folders,   \* the folders of the drive
  Root,      \* DRIVE_FOLDER_ID
  PageSize   \* items the drive returns in one response

VARIABLES
  drive,     \* the items of each folder, in the order the drive lists them
  urls       \* the module the script wrote: <<>>, or its two variables

NoFile == 0

\* files().list: the pages of a folder, at least one.
Pages(folder) ==
  LET items == drive[folder]
      n == IF items = <<>> THEN 1 ELSE (Len(items) + PageSize - 1) \div PageSize
  IN  [p \in 1..n |-> SubSeq(items, (p - 1) * PageSize + 1,
                             IF p = n THEN Len(items) ELSE p * PageSize)]

\* Mutant: the folders in a folder are not looked into.
get_subfolder_files_Flat(folder, kind) ==
  LET pages == Pages(folder) IN {i \in Range(pages[Len(pages)]) : i.kind = kind}

\* items holds what the last response returned.
get_subfolder_files(folder, kind) ==
  LET found[f \in Folders] ==
        LET pages == Pages(f)
            items == Range(pages[Len(pages)])
        IN  {i \in items : i.kind = kind}
              \cup UNION {found[i.folder] : i \in {k \in items : k.kind = "folder"}}
  IN  found[folder]

\* max(..., key=modifiedTime), None when there is none.
latest(files) ==
  IF files = {} THEN NoFile
  ELSE (CHOOSE f \in files : \A g \in files : g.modifiedTime <= f.modifiedTime).modifiedTime

\* main(): a variable is written only if its file was found.
GetLatest ==
  /\ urls' = <<[xlsx_url |-> latest(get_subfolder_files(Root, "xlsx")),
                zip_url  |-> latest(get_subfolder_files(Root, "zip"))]>>
  /\ UNCHANGED drive

\* from gdrive_url import xlsx_url, zip_url, in doc/conf.py.
ImportSucceeds == urls[1].xlsx_url # NoFile /\ urls[1].zip_url # NoFile

=============================================================================
