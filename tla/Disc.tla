-------------------------------- MODULE Disc --------------------------------
(* Disc images (guest/gdrom/disc.c, gdi.c, cdi.c, chd.c): the three parsers *)
(* that lay tracks out over the frame addresses of a disc, the way from a   *)
(* frame address to bytes of a file, the patches that make a disc boot in   *)
(* all regions, and the search for a file in the root directory.            *)
(*                                                                          *)
(* An image is what the tool that made it put into it: for every track its  *)
(* mode, sector size and length, and where it is on the disc.  A byte of a  *)
(* file is known by the sector it belongs to and its place in the sector.   *)
EXTENDS Integers, Sequences, FiniteSets, SequencesExt

CONSTANTS
  DcImages,  \* images: [kind, tracks, boot, root]
  DcPregap,  \* GDROM_PREGAP (150)
  DcHigh,    \* leadin_fad of the high density area (0xb05e)
  DcHunk,    \* units of a hunk (8)
  DcPvd,     \* ISO_PVD_SECTOR (16)
  DcDirSize, \* bytes of a sector, in a directory
  DcNames,   \* file names that are looked for
  DcMaxRead, \* sectors of a read: as many as the buffer of the drive holds (27)
  DcReads,   \* bound on the reads of a behaviour
  DcAcross,  \* a read may leave the track it begins in
  DcAudio,   \* audio tracks are read
  DcOther    \* a read may ask for another format than the track's, or for more than its data

VARIABLES
  dcimg,     \* the image that is open, or <<>>
  dc,        \* struct disc with its tracks and sessions
  dcgot,     \* what the last read has delivered, by sector
  dcask,     \* history: the frame addresses it asked for
  dcfile,    \* the last answer of disc_find_file: [name, fad]
  dcfatal,   \* a CHECK has failed
  dccount    \* reads so far
dcvars == <<dcimg, dc, dcgot, dcask, dcfile, dcfatal, dccount>>

NoDisc == [tracks |-> <<>>, session |-> [first |-> 0, leadin |-> 0], meta |-> 0, area |-> 0, uid |-> <<>>]
NotAsked == [name |-> <<>>, fad |-> -1]

IpAreas == 14080
UnitBytes == 2448
SectorBound == 2352  \* DISC_MAX_SECTOR_SIZE

----------------------------------------------------------------------------
(* The images, as the tools write them                                     *)

TotalLen(t) == t.pregap + t.frames
ImageKind(img) == img.kind

(* The first frame address of track n, and the place of its first sector:  *)
(* in a file of its own, after all that comes before it in the one file,   *)
(* or by units, with every track padded to a multiple of four.             *)
SumOf(s, n) == LET sum[i \in 0 .. n] == IF i = 0 THEN 0 ELSE sum[i - 1] + s[i] IN sum[n]
AlignUp(x) == ((x + 3) \div 4) * 4
DiscStart(img, n) ==
  CASE ImageKind(img) = "gdi" -> img.tracks[n].lba + DcPregap
    [] ImageKind(img) = "cdi" -> img.tracks[n].lba + img.tracks[n].pregap
    [] OTHER -> DcPregap + SumOf([i \in DOMAIN img.tracks |-> img.tracks[i].frames], n - 1)
FileStart(img, n) ==
  CASE ImageKind(img) = "gdi" -> img.tracks[n].skip
    [] ImageKind(img) = "cdi" ->
         SumOf([i \in DOMAIN img.tracks |-> TotalLen(img.tracks[i]) * img.tracks[i].size], n - 1)
           + img.tracks[n].pregap * img.tracks[n].size
    [] OTHER -> SumOf([i \in DOMAIN img.tracks |-> AlignUp(img.tracks[i].frames) * UnitBytes], n - 1)
SectorPitch(img, n) == IF ImageKind(img) = "chd" THEN UnitBytes ELSE img.tracks[n].size

(* Where the user data of a sector is, by the standards for CD-ROM.        *)
UserData(t) ==
  CASE t.mode = 0 -> 0
    [] t.mode = 1 -> IF t.size = 2352 THEN 16 ELSE 0
    [] OTHER -> t.size - 2048 - (IF t.size = 2048 THEN 0 ELSE 280)

(* Reading at byte pos of the file of track n: the sector that is there.   *)
SectorsOf(img) == UNION {{<<n, k>> : k \in 0 .. img.tracks[n].frames - 1} : n \in DOMAIN img.tracks}
ReadAt(img, n, pos) ==
  LET here == {s \in SectorsOf(img) :
                 /\ ImageKind(img) = "gdi" => s[1] = n
                 /\ LET p == FileStart(img, s[1]) + s[2] * SectorPitch(img, s[1])
                    IN  p <= pos /\ pos < p + SectorPitch(img, s[1])}
  IN  IF here = {} THEN <<>>
      ELSE LET s == CHOOSE s \in here : TRUE
           IN  <<s, pos - FileStart(img, s[1]) - s[2] * SectorPitch(img, s[1])>>

(* What a tool that writes images keeps to: a track has its own part of the *)
(* disc, behind those before it, and a disc of more than one session boots *)
(* from data in the one that is looked for.  The root directory is one     *)
(* sector, and no name that is looked for begins another one.              *)
DiscTracks == [mode : 0 .. 2, size : Nat \ {0}, frames : Nat \ {0}, lba : Nat, pregap : Nat, skip : Nat]
DirRecords == [name : Seq(STRING), len : Nat \ {0}, extent : Nat]
TracksApart(img) ==
  \A m \in DOMAIN img.tracks : \A n \in DOMAIN img.tracks :
    m < n => DiscStart(img, m) + img.tracks[m].frames <= DiscStart(img, n)
BootsFrom(img) ==
  LET t == img.tracks[img.boot]
  IN  /\ t.mode # 0 /\ t.frames > DcPvd + 1 /\ t.frames > IpAreas \div 2048
      /\ ImageKind(img) # "cdi" => img.boot = 3 /\ DiscStart(img, 3) = DcHigh
RootFits(img) == SumOf([i \in DOMAIN img.root |-> img.root[i].len], Len(img.root)) <= DcDirSize
NamesApart(img) ==
  \A i \in DOMAIN img.root : \A name \in DcNames : IsPrefix(name, img.root[i].name) <=> img.root[i].name = name
WellMade(img) ==
  /\ img.kind \in {"gdi", "cdi", "chd"} /\ img.tracks \in Seq(DiscTracks) /\ TracksApart(img)
  /\ img.kind = "gdi" => \A n \in DOMAIN img.tracks : img.tracks[n].mode # 2
  /\ img.boot \in DOMAIN img.tracks /\ BootsFrom(img)
  /\ img.root \in Seq(DirRecords) /\ RootFits(img) /\ NamesApart(img)

ASSUME DcAssumption == DcPregap \in Nat /\ DcHunk \in Nat \ {0} /\ DcPvd \in Nat /\ DcDirSize \in Nat /\ DcMaxRead \in Nat
  /\ \A img \in DcImages : WellMade(img)

----------------------------------------------------------------------------
(* track_set_layout                                                        *)

TrackLayout(mode, size) ==
  CASE mode = 0 /\ size = 2352 -> [fmt |-> "CDDA", header |-> 0, error |-> 0, data |-> 2352]
    [] mode = 1 /\ size = 2048 -> [fmt |-> "M1", header |-> 0, error |-> 0, data |-> 2048]
    [] mode = 1 /\ size = 2352 -> [fmt |-> "M1", header |-> 16, error |-> 288, data |-> 2048]
    [] mode = 1 /\ size = 2336 -> [fmt |-> "M1", header |-> 0, error |-> 288, data |-> 2048]
    [] mode = 2 /\ size = 2048 -> [fmt |-> "M2F1", header |-> 0, error |-> 0, data |-> 2048]
    [] mode = 2 /\ size = 2352 -> [fmt |-> "M2F1", header |-> 24, error |-> 280, data |-> 2048]
    [] mode = 2 /\ size = 2336 -> [fmt |-> "M2F1", header |-> 8, error |-> 280, data |-> 2048]
    [] OTHER -> [fmt |-> "none", header |-> 0, error |-> 0, data |-> 0]

Supported(img, tracks) ==
  \A n \in DOMAIN tracks : tracks[n].fmt # "none" /\ (ImageKind(img) = "chd" => img.tracks[n].pregap = 0)
LaidOut(mode, size, fad, off) ==
  LET l == TrackLayout(mode, size)
  IN  [fad |-> fad, off |-> off, size |-> size, fmt |-> l.fmt, header |-> l.header, data |-> l.data]

(* gdi_parse takes every track for mode 1.                                 *)
GdiTracks(img) ==
  [n \in DOMAIN img.tracks |->
     LET t == img.tracks[n]
         fad == t.lba + DcPregap
     IN  LaidOut(1, t.size, fad, t.skip - fad * t.size)]

(* Mutant: the place of a track is where its pregap begins.                *)
CdiTrackEarly(st, t) ==
  LET fad == t.pregap + t.lba
  IN  [offset |-> st.offset + TotalLen(t) * t.size,
       tracks |-> Append(st.tracks, LaidOut(t.mode, t.size, fad, st.offset - fad * t.size))]

(* cdi_parse_track: offset is the data offset of the track in the file.    *)
CdiTrack(st, t) ==
  LET fad == t.pregap + t.lba
      data == st.offset + t.pregap * t.size
  IN  [offset |-> st.offset + TotalLen(t) * t.size,
       tracks |-> Append(st.tracks, LaidOut(t.mode, t.size, fad, data - fad * t.size))]
CdiTracks(img) ==
  LET after[n \in 0 .. Len(img.tracks)] ==
        IF n = 0 THEN [offset |-> 0, tracks |-> <<>>] ELSE CdiTrack(after[n - 1], img.tracks[n])
  IN  after[Len(img.tracks)].tracks

(* chd_parse: file_offset is what separates frame and block addresses.  The *)
(* size of a sector stands for the name of the track's type.               *)
ChdTrack(st, t) ==
  [cad |-> st.cad + AlignUp(t.frames), fad |-> st.fad + t.frames,
   tracks |-> Append(st.tracks, LaidOut(t.mode, t.size, st.fad, st.fad - st.cad))]
ChdTracks(img) ==
  LET after[n \in 0 .. Len(img.tracks)] ==
        IF n = 0 THEN [cad |-> 0, fad |-> DcPregap, tracks |-> <<>>] ELSE ChdTrack(after[n - 1], img.tracks[n])
  IN  after[Len(img.tracks)].tracks

ParsedTracks(img) ==
  CASE ImageKind(img) = "gdi" -> GdiTracks(img) [] ImageKind(img) = "cdi" -> CdiTracks(img) [] OTHER -> ChdTracks(img)

(* The first track and the lead-in of the last session, the only one that  *)
(* is used: on a GD-ROM the high density area, from the third track on.    *)
HighDensity == [first |-> 3, leadin |-> DcHigh]
CdiSession(img, tracks) == [first |-> img.boot, leadin |-> tracks[img.boot].fad]
ParsedSession(img, tracks) == IF ImageKind(img) = "cdi" THEN CdiSession(img, tracks) ELSE HighDensity

(* disc_create: the image is refused if a track has an unknown layout, and *)
(* one for chd if a track has a gap of its own.                            *)
DiscOf(img, tracks) ==
  LET session == ParsedSession(img, tracks)
      main == tracks[session.first]
  IN  IF ~Supported(img, tracks) THEN NoDisc
      ELSE [tracks |-> tracks, session |-> session, meta |-> main.fad, area |-> main.fad + IpAreas \div main.data,
            uid |-> <<>>]
CreateDisc(img) == DiscOf(img, ParsedTracks(img))

----------------------------------------------------------------------------
(* Reading                                                                 *)

(* disc_lookup_track: the last track has no end, and the others end where  *)
(* the next one begins.                                                    *)
LookupTrack(d, fad) ==
  LET n == Len(d.tracks)
  IN  SelectInSeq([i \in 1 .. n |-> fad >= d.tracks[i].fad /\ (i < n => fad < d.tracks[i + 1].fad)], LAMBDA b : b)

(* gdi_read_sector, cdi_read_sector and chd_read_sector.  oldhunk is never *)
(* set, so that every sector has its hunk read again.                      *)
ChdReadSector(img, n, t, fad) ==
  LET at == (fad - t.off) * UnitBytes
      hunknum == at \div (DcHunk * UnitBytes)
      hunkofs == at % (DcHunk * UnitBytes)
  IN  ReadAt(img, n, hunknum * DcHunk * UnitBytes + hunkofs + t.header)
FileReadSector(img, n, t, fad) == ReadAt(img, n, t.off + fad * t.size + t.header)
ReadSector(img, n, t, fad) ==
  IF ImageKind(img) = "chd" THEN ChdReadSector(img, n, t, fad) ELSE FileReadSector(img, n, t, fad)
CopiedBytes(img, t) == IF ImageKind(img) = "chd" THEN 2048 ELSE t.data

(* disc_patch_sector                                                       *)
PatchOf(d, fad) == IF fad = d.meta THEN "meta" ELSE IF fad = d.area THEN "area" ELSE "none"

NotRead == [ok |-> FALSE, got |-> <<>>]

(* What a read says beside its frames: the format of the sectors, the part *)
(* of them, and the room there is for it.  The emulator's own reads take   *)
(* any format.                                                             *)
Formats == {"ANY", "CDDA", "M1", "M2", "M2F1", "M2F2", "M2_NOXA"}
AnyData(bytes) == [fmt |-> "ANY", part |-> "DATA", room |-> bytes]
Accepts(t, count, how) ==
  how.fmt \in {"ANY", t.fmt} /\ how.part = "DATA" /\ count * t.data <= how.room

(* disc_read_sectors: all sectors by the layout of the first one's track;  *)
(* nothing is read if a CHECK fails.                                       *)
DiscReadSectors(img, d, fad, count, how) ==
  LET n == LookupTrack(d, fad)
      one(f) == [from |-> ReadSector(img, n, d.tracks[n], f), bytes |-> CopiedBytes(img, d.tracks[n]), patch |-> PatchOf(d, f)]
      read(got) == IF \E i \in 1 .. count : got[i].from = <<>> THEN NotRead ELSE [ok |-> TRUE, got |-> got]
  IN  IF n = 0 THEN NotRead
      ELSE IF ~Accepts(d.tracks[n], count, how) THEN NotRead
      ELSE read([i \in 1 .. count |-> one(fad + i - 1)])

(* The disc is known by what its first sector says, which is looked for at *)
(* the lead-in of the session (disc_get_meta).                             *)
OpenDisc(img) ==
  /\ dcimg = <<>> /\ ~dcfatal
  /\ \E d \in {CreateDisc(img)} :
       \/ d = NoDisc /\ UNCHANGED <<dcimg, dc, dcfatal>>
       \/ /\ d # NoDisc /\ dcimg' = img
          /\ \E ip \in {DiscReadSectors(img, d, d.session.leadin, 1, AnyData(SectorBound))} :
               dcfatal' = ~ip.ok /\ dc' = [d EXCEPT !.uid = IF ip.ok THEN ip.got[1].from[1] ELSE <<>>]
  /\ UNCHANGED <<dcgot, dcask, dcfile, dccount>>

CloseDisc ==
  /\ dcimg # <<>> /\ ~dcfatal
  /\ dcimg' = <<>> /\ dc' = NoDisc
  /\ dcgot' = <<>> /\ dcask' = <<>> /\ dcfile' = NotAsked
  /\ UNCHANGED <<dcfatal, dccount>>

(* The track of the image that has a frame address, or 0.                  *)
TrackAt(img, fad) ==
  SelectInSeq([n \in DOMAIN img.tracks |-> fad - DiscStart(img, n) \in 0 .. img.tracks[n].frames - 1], LAMBDA b : b)

(* The format of a track, by the standards for CD-ROM.                     *)
FormatOf(mode) == CASE mode = 0 -> "CDDA" [] mode = 1 -> "M1" [] OTHER -> "M2F1"

(* What the packet of CD_READ may say, into the buffer of the drive; and    *)
(* what it does say: it reads frames that the disc has, as what they are.  *)
Asked == [fmt : Formats, part : {"DATA", "OTHER"}, room : {DcMaxRead * SectorBound}]
ReadWanted(fad, count, how) ==
  LET n == TrackAt(dcimg, fad)
      last == TrackAt(dcimg, fad + count - 1)
  IN  /\ n # 0
      /\ last = n \/ (DcAcross /\ last # 0)
      /\ dcimg.tracks[n].mode # 0 \/ DcAudio
      /\ (how.fmt \in {"ANY", FormatOf(dcimg.tracks[n].mode)} /\ how.part = "DATA") \/ DcOther

ReadFrames(fad, count, how) ==
  /\ dcimg # <<>> /\ ~dcfatal /\ dccount < DcReads /\ ReadWanted(fad, count, how)
  /\ \E r \in {DiscReadSectors(dcimg, dc, fad, count, how)} : dcfatal' = ~r.ok /\ dcgot' = r.got
  /\ dcask' = [i \in 1 .. count |-> fad + i - 1]
  /\ dccount' = dccount + 1
  /\ UNCHANGED <<dcimg, dc, dcfile>>

----------------------------------------------------------------------------
(* disc_find_file                                                          *)

(* The root directory in memory: a record lies in one sector, and what it  *)
(* leaves of a sector is zero.                                             *)
DirPlaced(st, e) ==
  LET rest == DcDirSize - (st.at % DcDirSize)
      at == IF e.len > rest THEN st.at + rest ELSE st.at
  IN  [at |-> at + e.len, dir |-> Append(st.dir, [at |-> at, e |-> e])]
RootExtent(img) == DiscStart(img, img.boot) + DcPvd + 1 - DcPregap
RootDir(img) ==
  LET after[i \in 0 .. Len(img.root)] == IF i = 0 THEN [at |-> 0, dir |-> <<>>] ELSE DirPlaced(after[i - 1], img.root[i])
  IN  after[Len(img.root)].dir

(* The walk ends at a record of length 0; a name fits if it begins with    *)
(* the name that is looked for.                                            *)
WalkRecord(w, r, name) ==
  IF w.over THEN w
  ELSE IF r.at # w.at THEN [at |-> w.at, over |-> TRUE, found |-> -1]
  ELSE IF IsPrefix(name, r.e.name) THEN [at |-> w.at, over |-> TRUE, found |-> r.e.extent]
  ELSE [at |-> w.at + r.e.len, over |-> FALSE, found |-> -1]
WalkDir(dir, name) ==
  LET after[i \in 0 .. Len(dir)] ==
        IF i = 0 THEN [at |-> 0, over |-> FALSE, found |-> -1] ELSE WalkRecord(after[i - 1], dir[i], name)
  IN  after[Len(dir)]

(* The volume descriptor is read by the first track of the last session;   *)
(* what it says of the root directory is an extent of the whole disc.  What *)
(* is read in another place than that of the directory holds no names.     *)
SectorIs(r, n, k) == r.ok /\ r.got[1].from[1] = <<n, k>>
VolumeRead == DiscReadSectors(dcimg, dc, dc.tracks[dc.session.first].fad + DcPvd, 1, AnyData(65536))
RootRead == DiscReadSectors(dcimg, dc, DcPregap + RootExtent(dcimg), 1, AnyData(SectorBound))
DirRead == IF SectorIs(RootRead, dcimg.boot, DcPvd + 1) THEN RootDir(dcimg) ELSE <<>>
FileAnswer(name, found) == [name |-> name, fad |-> IF found = -1 THEN -1 ELSE DcPregap + found]
FindFile(name) ==
  /\ dcimg # <<>> /\ ~dcfatal /\ dccount < DcReads
  /\ dcfatal' = (~SectorIs(VolumeRead, dcimg.boot, DcPvd) \/ ~RootRead.ok)
  /\ dcfile' = FileAnswer(name, WalkDir(DirRead, name).found)
  /\ dccount' = dccount + 1
  /\ UNCHANGED <<dcimg, dc, dcgot, dcask>>

DcInit ==
  /\ dcimg = <<>> /\ dc = NoDisc
  /\ dcgot = <<>> /\ dcask = <<>> /\ dcfile = NotAsked
  /\ dcfatal = FALSE /\ dccount = 0

DcNext ==
  \/ \E img \in DcImages : OpenDisc(img)
  \/ CloseDisc
  \/ /\ dcimg # <<>>
     /\ \E n \in DOMAIN dcimg.tracks : \E k \in 0 .. dcimg.tracks[n].frames - 1, count \in 1 .. DcMaxRead :
          \E how \in Asked : ReadFrames(DiscStart(dcimg, n) + k, count, how)
  \/ \E name \in DcNames : FindFile(name)

DcSpec == DcInit /\ [][DcNext]_dcvars

----------------------------------------------------------------------------
(* Each sector of a read is the one that the disc has at its frame         *)
(* address, from the first byte of its data to the last, with the regions  *)
(* patched in the two sectors of IP.BIN that name them, and in no other.   *)
PatchRight(img, n, k) ==
  CASE n = img.boot /\ k = 0 -> "meta" [] n = img.boot /\ k = IpAreas \div 2048 -> "area" [] OTHER -> "none"
SectorRight(img, got, fad) ==
  LET n == TrackAt(img, fad)
      k == fad - DiscStart(img, n)
  IN  /\ got.from = << <<n, k>>, UserData(img.tracks[n])>>
      /\ got.bytes = IF img.tracks[n].mode = 0 THEN 2352 ELSE 2048
      /\ got.patch = PatchRight(img, n, k)
ReadsExact == \A i \in DOMAIN dcgot : SectorRight(dcimg, dcgot[i], dcask[i])

(* A file is found, at its own extent, exactly if the root directory has   *)
(* one of that name.                                                       *)
Named(img, name) == {i \in DOMAIN img.root : img.root[i].name = name}
FileRight(img, file) ==
  IF Named(img, file.name) = {} THEN file.fad = -1
  ELSE \E i \in Named(img, file.name) : file.fad = DcPregap + img.root[i].extent
FilesFound == FileRight(dcimg, dcfile)

(* Whatever the format of the image, the modes, sizes, gaps and padding of *)
(* its tracks and the images that were open before: reads of the data of a *)
(* track, in its own format, deliver the right sectors, files are found,   *)
(* the disc is known by its own first sector, and no CHECK fails           *)
(* (disc_read_sectors, disc_find_file, gdi_parse, cdi_parse, chd_parse).   *)
DiscExact ==
  /\ ~dcfatal
  /\ dcimg # <<>> => ReadsExact /\ dc.uid = <<dcimg.boot, 0>>
  /\ dcimg # <<>> /\ dcfile # NotAsked => FilesFound

=============================================================================
